---- MODULE Spec2Model ----
\* Itinerary consistency engine of the trip planner: the stop reordering
\* handlers of the trip builder, the destination-suggestions "add spot"
\* handler, and the trip export/import codec, over a store of trips, stops
\* and activities.
EXTENDS Integers, Sequences, FiniteSets, TLC

VARIABLES
    dbTrips,    \* store table "trips": set of rows
    dbStops,    \* store table "trip_stops": set of rows
    dbActs,     \* store table "trip_activities": set of rows
    nextId,     \* number of identifiers the store has handed out
    screen,     \* which screen is mounted (page.tsx)
    trip,       \* the selectedTrip prop of the mounted screen
    user,       \* the signed-in user (useAuth), Null when signed out
    stops,      \* the mounted screen's useState<TripStop[]> (stops with nested activities)
    pc,         \* position of the running handler; "idle" when none runs
    op,         \* locals of the running handler
    toasts,     \* notifications raised by the running / last handler
    writes,     \* store writes issued by the running / last handler
    last,       \* the most recent handler call and, for a reorder, how it ended
    prev,       \* after a successful move up, until the next handler call has
                \* finished: that move and the state it started from
    failures,   \* number of store requests that have failed since the start
    file,       \* the content of the chosen import file
    intervalSorts   \* the date-fns release of the build: whether its
                \* isWithinInterval puts the ends of an interval in order

vars == <<dbTrips, dbStops, dbActs, nextId, screen, trip, user, stops, pc, op,
          toasts, writes, last, prev, failures, file, intervalSorts>>

-----------------------------------------------------------------------------
\* Bounds

MaxStops == 2
MaxIds == 5
MaxSpots == 1
MaxFailures == 2
MaxSrcStops == 2
MaxSrcActs == 1
MaxImports == 1

-----------------------------------------------------------------------------
\* JavaScript values: every field of a record holds a tagged value.

Undef == [k |-> "undefined"]
Null == [k |-> "null"]
Str(s) == [k |-> "string", v |-> s]
Id(n) == [k |-> "id", v |-> n]
Num(n) == [k |-> "number", v |-> n]
Bool(b) == [k |-> "boolean", v |-> b]
Arr(a) == [k |-> "array", v |-> a]
Obj(o) == [k |-> "object", v |-> o]

\* typeof v
TypeOf(v) ==
    CASE v.k = "undefined" -> "undefined"
      [] v.k \in {"null", "array", "object"} -> "object"
      [] v.k \in {"string", "id"} -> "string"
      [] v.k = "number" -> "number"
      [] v.k = "boolean" -> "boolean"

\* !!v
Truthy(v) ==
    CASE v.k \in {"undefined", "null"} -> FALSE
      [] v.k = "string" -> v.v # ""
      [] v.k = "id" -> TRUE
      [] v.k = "number" -> v.v # 0
      [] v.k = "boolean" -> v.v
      [] v.k \in {"array", "object"} -> TRUE

\* a || b
OrElse(a, b) == IF Truthy(a) THEN a ELSE b

\* o.f on a plain object held as a TLA+ function from field names
Get(o, f) == IF f \in DOMAIN o THEN o[f] ELSE Undef

\* v.f on a tagged value that is known to be neither null nor undefined
Field(v, f) == IF v.k = "object" THEN Get(v.v, f) ELSE Undef

\* Array.isArray(v)
IsArray(v) == v.k = "array"

\* the rest pattern { f1, f2, ...rest } = o
Rest(o, drop) == [f \in (DOMAIN o) \ drop |-> o[f]]

\* { ...o, f: x }
Put(o, f, x) == [g \in (DOMAIN o) \cup {f} |-> IF g = f THEN x ELSE o[g]]

Range(s) == {s[i] : i \in 1..Len(s)}

\* s.findIndex(x => x.id === id), zero-based, -1 when absent
FindIndex(s, id) ==
    IF \E i \in 1..Len(s) : s[i].id = id
    THEN (CHOOSE i \in 1..Len(s) : s[i].id = id /\ \A j \in 1..(i-1) : s[j].id # id) - 1
    ELSE -1

-----------------------------------------------------------------------------
\* The store: tables of rows with store-assigned identifiers.

TripCols == {"id", "user_id", "name", "description", "start_date", "end_date",
             "cover_image", "is_public", "share_code", "total_budget",
             "created_at", "updated_at"}

StopCols == {"id", "trip_id", "city_id", "city_name", "country", "start_date",
             "end_date", "order_index", "transport_cost", "accommodation_cost",
             "notes"}

ActCols == {"id", "trip_stop_id", "activity_id", "name", "description",
            "scheduled_date", "scheduled_time", "duration_hours",
            "estimated_cost", "order_index", "category", "is_custom"}

\* insert(payload).select().single(): the created row; columns the payload
\* does not give are null, fields that are no column are not stored
InsertRow(cols, payload, id) ==
    [c \in cols |-> IF c = "id" THEN id
                    ELSE IF c \in DOMAIN payload /\ payload[c] # Undef THEN payload[c]
                    ELSE Null]

\* update({order_index}).eq("id", id)
UpdateOrderIndex(table, id, oi) ==
    {IF r.id = id THEN [r EXCEPT !.order_index = oi] ELSE r : r \in table}

\* delete().eq("id", id)
DeleteRow(table, id) == {r \in table : r.id # id}

\* .order("order_index"): every ascending arrangement of the rows; rows with
\* equal order_index come in an order the store chooses
IsAscending(s) == \A i \in 1..(Len(s) - 1) : s[i].order_index.v <= s[i+1].order_index.v

OrderByIndex(rows) ==
    {s \in [1..Cardinality(rows) -> rows] :
        /\ \A i, j \in 1..Cardinality(rows) : i # j => s[i] # s[j]
        /\ IsAscending(s)}

-----------------------------------------------------------------------------
\* Rows the model starts from and the inputs the handlers are given

U1 == Str("u1")
U2 == Str("u2")

\* the user of the auth context when signed in
SignedIn(u) == Obj([id |-> u])

TripRow(id, owner, name, pub, code) ==
    [id |-> id, user_id |-> owner, name |-> name, description |-> Null,
     start_date |-> Null, end_date |-> Null, cover_image |-> Null,
     is_public |-> Bool(pub), share_code |-> code, total_budget |-> Num(0),
     created_at |-> Str("t0"), updated_at |-> Str("t0")]

BuilderTrip == TripRow(Id(1), U1, Str("Goa"), FALSE, Str("c1"))
OtherTrip == TripRow(Id(2), U2, Str("Agra"), FALSE, Str("c2"))

OtherStop ==
    InsertRow(StopCols, [trip_id |-> Id(2), city_name |-> Str("Agra"),
                         order_index |-> Num(0)], Id(3))

CityNames == {"Pune"}

SpotCities == {"Pune", "Hampi"}

FreshId == Id(nextId + 1)

TripStopsIn(table, t) == {r \in table : r.trip_id = t.id}

Ids(s) == [i \in 1..Len(s) |-> s[i].id]

OrderIndices(s) == [i \in 1..Len(s) |-> s[i].order_index]

Toast(sev, msg) == [sev |-> sev, msg |-> msg]

NoCall == [h |-> "none"]

Call(h) == [h |-> h]

-----------------------------------------------------------------------------
\* TripBuilder.loadTripStops, run by the mount effect of the builder

\* the stops of the trip in order_index order, each with its activities in
\* order_index order
LoadedStops(t) ==
    {[i \in 1..Len(s) |-> Put(s[i], "activities", Arr(af[s[i].id]))] :
        <<s, af>> \in
          {<<s, af>> \in OrderByIndex(TripStopsIn(dbStops, t)) \X
                [{r.id : r \in TripStopsIn(dbStops, t)} ->
                   UNION {OrderByIndex({a \in dbActs : a.trip_stop_id = r.id}) :
                            r \in TripStopsIn(dbStops, t)}] :
              \A id \in DOMAIN af :
                  af[id] \in OrderByIndex({a \in dbActs : a.trip_stop_id = id})}}

\* navigation to the itinerary builder: the builder mounts with an empty
\* list and loads the trip's stops
OpenBuilder(ok) ==
    /\ pc = "idle"
    /\ screen # "builder"
    /\ screen' = "builder"
    /\ (~ok => failures < MaxFailures)
    /\ IF ok
       THEN \E s \in LoadedStops(trip) : stops' = s
       ELSE stops' = <<>>
    /\ toasts' = <<>>
    /\ writes' = 0
    /\ prev' = NoCall
    /\ last' = Call("load")
    /\ failures' = IF ok THEN failures ELSE failures + 1
    /\ UNCHANGED <<intervalSorts, dbTrips, dbStops, dbActs, nextId, trip, user, pc, op, file>>

\* navigation from the builder to the destination suggestions (onDiscover)
OpenDiscover ==
    /\ pc = "idle"
    /\ screen = "builder"
    /\ screen' = "discover"
    /\ stops' = <<>>
    /\ toasts' = <<>>
    /\ writes' = 0
    /\ last' = Call("discover")
    /\ prev' = NoCall
    /\ UNCHANGED <<intervalSorts, dbTrips, dbStops, dbActs, nextId, trip, user, pc, op,
                   failures, file>>

\* navigation from the builder back to the trip view (onCancel)
CloseBuilder ==
    /\ pc = "idle"
    /\ screen = "builder"
    /\ screen' = "trip-view"
    /\ stops' = <<>>
    /\ toasts' = <<>>
    /\ writes' = 0
    /\ last' = Call("cancel")
    /\ prev' = NoCall
    /\ UNCHANGED <<intervalSorts, dbTrips, dbStops, dbActs, nextId, trip, user, pc, op,
                   failures, file>>

-----------------------------------------------------------------------------
\* TripBuilder.handleAddStop

AddStopOrderIndex(s) == Len(s)

HandleAddStop(city, ok) ==
    /\ pc = "idle"
    /\ screen = "builder"
    /\ writes' = IF city = "" THEN 0 ELSE 1
    /\ prev' = NoCall
    /\ IF city = ""
       THEN /\ toasts' = <<Toast("error", "Please enter a city name")>>
            /\ last' = Call("add")
            /\ UNCHANGED <<dbStops, nextId, stops, failures>>
       ELSE /\ Len(stops) < MaxStops
            /\ nextId < MaxIds
            /\ IF ok
               THEN LET data == InsertRow(StopCols,
                                 [trip_id |-> trip.id, city_name |-> Str(city),
                                  country |-> Str(""), start_date |-> Null,
                                  end_date |-> Null,
                                  order_index |-> Num(AddStopOrderIndex(stops))],
                                 FreshId)
                    IN /\ dbStops' = dbStops \cup {data}
                       /\ nextId' = nextId + 1
                       /\ stops' = Append(stops, Put(data, "activities", Arr(<<>>)))
                       /\ toasts' = <<Toast("success", "Stop added!")>>
                       /\ last' = Call("add")
                       /\ UNCHANGED failures
               ELSE /\ failures < MaxFailures
                    /\ toasts' = <<Toast("error", "Failed to add stop")>>
                    /\ last' = Call("add")
                    /\ failures' = failures + 1
                    /\ UNCHANGED <<dbStops, nextId, stops>>
    /\ UNCHANGED <<intervalSorts, dbTrips, dbActs, screen, trip, user, pc, op, file>>

-----------------------------------------------------------------------------
\* TripBuilder.handleDeleteStop

HandleDeleteStop(stopId, ok) ==
    /\ pc = "idle"
    /\ screen = "builder"
    /\ writes' = 1
    /\ prev' = NoCall
    /\ IF ok
       THEN /\ dbStops' = DeleteRow(dbStops, stopId)
            /\ stops' = SelectSeq(stops, LAMBDA s : s.id # stopId)
            /\ toasts' = <<Toast("success", "Stop deleted")>>
            /\ last' = Call("delete")
            /\ UNCHANGED failures
       ELSE /\ failures < MaxFailures
            /\ toasts' = <<Toast("error", "Failed to delete stop")>>
            /\ last' = Call("delete")
            /\ failures' = failures + 1
            /\ UNCHANGED <<dbStops, stops>>
    /\ UNCHANGED <<intervalSorts, dbTrips, dbActs, nextId, screen, trip, user, pc, op, file>>

-----------------------------------------------------------------------------
\* TripBuilder.handleReorderStop

\* variant of ReorderTarget that clamps the target to the list:
\* Math.max(0, cur - 1) and Math.min(stops.length - 1, cur + 1)
ReorderTargetClamp(cur, dir) ==
    IF dir = "up"
    THEN (IF cur - 1 < 0 THEN 0 ELSE cur - 1)
    ELSE (IF cur + 1 > Len(stops) - 1 THEN Len(stops) - 1 ELSE cur + 1)

\* newIndex = direction === 'up' ? currentIndex - 1 : currentIndex + 1
ReorderTarget(cur, dir) == IF dir = "up" THEN cur - 1 ELSE cur + 1

\* the two early returns after findIndex
ReorderIsNoop(s, cur, new) == cur = -1 \/ new < 0 \/ new >= Len(s)

\* updatedStops = [...stops] copies the array, not the stop objects: the
\* exchange of order_index is made on the objects the state holds
\* (cur and new are zero-based)
SwapOrderIndex(s, cur, new) ==
    [s EXCEPT ![cur + 1].order_index = s[new + 1].order_index,
              ![new + 1].order_index = s[cur + 1].order_index]

\* the two update requests, built from the exchanged values
ReorderUpdates(s, stopId, cur, new) ==
    <<[id |-> stopId, order_index |-> s[cur + 1].order_index],
      [id |-> s[new + 1].id, order_index |-> s[new + 1].order_index]>>

\* variant of ReorderHasError: results.every(r => r.error)
ReorderHasErrorEvery(errors) == errors = {1, 2}

\* results.some(r => r.error)
ReorderHasError(errors) == errors # {}

\* [reordered[cur], reordered[new]] = [reordered[new], reordered[cur]]
SwapPositions(s, cur, new) ==
    [s EXCEPT ![cur + 1] = s[new + 1], ![new + 1] = s[cur + 1]]

\* the handler up to Promise.all(updates): both requests are issued
HandleReorderStop(stopId, dir) ==
    /\ pc = "idle"
    /\ screen = "builder"
    /\ LET cur == FindIndex(stops, stopId)
           new == ReorderTarget(cur, dir)
       IN IF ReorderIsNoop(stops, cur, new)
          THEN /\ toasts' = <<>>
               /\ writes' = 0
               /\ prev' = NoCall
               /\ last' = Call("reorder:noop")
               /\ UNCHANGED <<stops, pc, op>>
          ELSE LET updatedStops == SwapOrderIndex(stops, cur, new)
               IN /\ stops' = updatedStops
                  /\ op' = [stopId |-> stopId, dir |-> dir, cur |-> cur, new |-> new,
                            updates |-> ReorderUpdates(updatedStops, stopId, cur, new),
                            pending |-> {1, 2}, errors |-> {},
                            preDb |-> dbStops, preMem |-> stops]
                  /\ pc' = "reorder"
                  /\ toasts' = <<>>
                  /\ writes' = 2
                  /\ last' = Call("reorder:pending")
                  /\ UNCHANGED prev
    /\ UNCHANGED <<intervalSorts, dbTrips, dbStops, dbActs, nextId, screen, trip, user, failures, file>>

\* one of the two update requests completes, with or without an error
ReorderUpdateDone(w, ok) ==
    /\ pc = "reorder"
    /\ w \in op.pending
    /\ IF ok
       THEN /\ dbStops' = UpdateOrderIndex(dbStops, op.updates[w].id,
                                           op.updates[w].order_index)
            /\ op' = [op EXCEPT !.pending = @ \ {w}]
            /\ UNCHANGED failures
       ELSE /\ failures < MaxFailures
            /\ op' = [op EXCEPT !.pending = @ \ {w}, !.errors = @ \cup {w}]
            /\ failures' = failures + 1
            /\ UNCHANGED dbStops
    /\ UNCHANGED <<intervalSorts, dbTrips, dbActs, nextId, screen, trip, user, stops, pc,
                   toasts, writes, last, prev, file>>

\* the handler after Promise.all has resolved
ReorderFinish ==
    /\ pc = "reorder"
    /\ op.pending = {}
    /\ pc' = "idle"
    /\ IF ReorderHasError(op.errors)
       THEN /\ toasts' = <<Toast("error", "Failed to reorder stops")>>
            /\ last' = Call("reorder:fail")
            /\ prev' = NoCall
            /\ UNCHANGED stops
       ELSE /\ stops' = SwapPositions(stops, op.cur, op.new)
            /\ toasts' = <<Toast("success", "Itinerary reordered")>>
            /\ last' = Call("reorder:ok")
            /\ prev' = IF op.dir = "up"
                        THEN [h |-> "up", stopId |-> op.stopId, cur |-> op.cur,
                              preDb |-> op.preDb, preMem |-> op.preMem]
                        ELSE NoCall
    /\ op' = [pending |-> {}]
    /\ UNCHANGED <<intervalSorts, dbTrips, dbStops, dbActs, nextId, screen, trip, user,
                   writes, failures, file>>

-----------------------------------------------------------------------------
\* DestinationSuggestions.handleAddSpot

\* select("id").eq("trip_id", ..).eq("city_name", ..).single(): the row when
\* exactly one matches and the request succeeds
SingleStopId(t, dest, ok) ==
    LET matches == {r \in TripStopsIn(dbStops, t) : r.city_name = Str(dest)}
    IN IF ok /\ Cardinality(matches) = 1
       THEN (CHOOSE r \in matches : TRUE).id
       ELSE Undef

SpotOrderIndex == 0

HandleAddSpot(dest, okSelect, okStop, okActivity) ==
    /\ pc = "idle"
    /\ screen = "discover"
    /\ Cardinality(dbActs) < MaxSpots
    /\ Cardinality(TripStopsIn(dbStops, trip)) < MaxStops
    /\ LET existing == SingleStopId(trip, dest, okSelect)
           newStop == InsertRow(StopCols,
                         [trip_id |-> trip.id, city_name |-> Str(dest),
                          country |-> Str("India"),
                          order_index |-> Num(SpotOrderIndex)], FreshId)
           needStop == ~Truthy(existing)
           stopId == IF needStop THEN newStop.id ELSE existing
           idsUsed == IF needStop /\ okStop THEN 1 ELSE 0
           activity == InsertRow(ActCols,
                         [trip_stop_id |-> stopId, name |-> Str("Fort"),
                          description |-> Str(""), duration_hours |-> Num(3),
                          estimated_cost |-> Num(500), category |-> Str("Heritage"),
                          is_custom |-> Bool(TRUE), order_index |-> Num(0)],
                         Id(nextId + idsUsed + 1))
       IN /\ (~needStop => okStop)
          /\ IF needStop /\ ~okStop
             THEN /\ toasts' = <<Toast("error", "Failed to add activity")>>
                  /\ writes' = 1
                  /\ UNCHANGED <<dbStops, dbActs, nextId>>
             ELSE /\ dbStops' = IF needStop THEN dbStops \cup {newStop} ELSE dbStops
                  /\ writes' = idsUsed + 1
                  /\ IF okActivity
                     THEN /\ dbActs' = dbActs \cup {activity}
                          /\ nextId' = nextId + idsUsed + 1
                          /\ toasts' = <<Toast("success", "Trip updated")>>
                     ELSE /\ nextId' = nextId + idsUsed
                          /\ toasts' = <<Toast("error", "Failed to add activity")>>
                          /\ UNCHANGED dbActs
          /\ failures' = failures + (IF okSelect THEN 0 ELSE 1)
                                   + (IF needStop /\ ~okStop THEN 1 ELSE 0)
                                   + (IF okActivity THEN 0 ELSE 1)
          /\ failures' <= MaxFailures
          /\ prev' = NoCall
          /\ last' = Call("spot")
    /\ UNCHANGED <<intervalSorts, dbTrips, screen, trip, user, stops, pc, op, file>>

-----------------------------------------------------------------------------
\* The trip builder and the destination suggestions over one store

Init ==
    /\ dbTrips = {BuilderTrip, OtherTrip}
    /\ dbStops = {OtherStop}
    /\ dbActs = {}
    /\ nextId = 3
    /\ screen = "builder"
    /\ trip = BuilderTrip
    /\ user = SignedIn(U1)
    /\ stops = <<>>
    /\ pc = "idle"
    /\ op = [pending |-> {}]
    /\ toasts = <<>>
    /\ writes = 0
    /\ last = NoCall
    /\ prev = NoCall
    /\ failures = 0
    /\ intervalSorts = TRUE
    /\ file = Undef

\* a stop id that no stop carries
NoSuchStop == Id(0)

Next ==
    \/ \E city \in CityNames \cup {""}, ok \in BOOLEAN : HandleAddStop(city, ok)
    \/ \E id \in Range(Ids(stops)), ok \in BOOLEAN : HandleDeleteStop(id, ok)
    \/ \E id \in Range(Ids(stops)) \cup {NoSuchStop}, dir \in {"up", "down"} :
          HandleReorderStop(id, dir)
    \/ \E w \in {1, 2}, ok \in BOOLEAN : ReorderUpdateDone(w, ok)
    \/ ReorderFinish
    \/ CloseBuilder
    \/ \E ok \in BOOLEAN : OpenBuilder(ok)

Spec == Init /\ [][Next]_vars

\* The builder and the destination suggestions over one store; only the
\* requests of handleAddSpot may fail
NextItinerary ==
    \/ \E city \in CityNames : HandleAddStop(city, TRUE)
    \/ \E id \in Range(Ids(stops)) : HandleDeleteStop(id, TRUE)
    \/ \E id \in Range(Ids(stops)), dir \in {"up", "down"} : HandleReorderStop(id, dir)
    \/ \E w \in {1, 2} : ReorderUpdateDone(w, TRUE)
    \/ ReorderFinish
    \/ OpenDiscover
    \/ \E dest \in SpotCities, a, b, c \in BOOLEAN : HandleAddSpot(dest, a, b, c)
    \/ OpenBuilder(TRUE)

SpecItinerary == Init /\ [][NextItinerary]_vars

-----------------------------------------------------------------------------
\* lib/trip-export: the export document and its text

EXPORT_VERSION == "1.0"

\* new Date().toISOString() at the time of the export
ExportedAt == Str("t1")

\* a stop of the screen's list and its nested activities as values
ActivityValues(as) == [i \in 1..Len(as) |-> Obj(as[i])]

StopValue(s) == Obj([s EXCEPT !.activities = Arr(ActivityValues(@.v))])

\* handleExport: only the first stop's activities are collected
AllActivitiesFirst(s) == IF Len(s) = 0 THEN <<>> ELSE s[1].activities.v

\* handleExport: allActivities.push(...stop.activities) for every stop
RECURSIVE AllActivities(_)
AllActivities(s) ==
    IF Len(s) = 0 THEN <<>> ELSE s[1].activities.v \o AllActivities(Tail(s))

\* exportTrip: exportedData
ExportedData(t, s, as) ==
    Obj([version |-> Str(EXPORT_VERSION), trip |-> Obj(t),
         stops |-> Arr([i \in 1..Len(s) |-> StopValue(s[i])]),
         activities |-> Arr(ActivityValues(as)),
         exportedAt |-> ExportedAt])

\* what JSON.stringify writes of a value: an object loses the fields whose
\* value is undefined, an undefined array element is written as null
RECURSIVE JsonValue(_)
JsonValue(v) ==
    CASE v.k = "object" ->
            Obj([f \in {g \in DOMAIN v.v : v.v[g] # Undef} |-> JsonValue(v.v[f])])
      [] v.k = "array" ->
            Arr([i \in 1..Len(v.v) |->
                   IF v.v[i] = Undef THEN Null ELSE JsonValue(v.v[i])])
      [] OTHER -> v

\* the text of a file: the JSON text of a value, or text that is no JSON
JsonStringify(v) == [k |-> "text", json |-> TRUE, v |-> JsonValue(v)]

NoJson == [k |-> "text", json |-> FALSE]

\* JSON.parse(text): the value, or a SyntaxError
JsonParse(text) ==
    IF text.json THEN [ok |-> TRUE, data |-> text.v] ELSE [ok |-> FALSE]

\* variant of validateImportedData without the check of data.trip.name
ValidateNoName(data) ==
    IF ~Truthy(data) \/ TypeOf(data) # "object" THEN FALSE
    ELSE IF ~Truthy(Field(data, "trip")) \/ TypeOf(Field(data, "trip")) # "object"
    THEN FALSE
    ELSE IF ~IsArray(Field(data, "stops")) THEN FALSE
    ELSE IF ~IsArray(Field(data, "activities")) THEN FALSE
    ELSE TRUE

ValidateImportedData(data) ==
    IF ~Truthy(data) \/ TypeOf(data) # "object" THEN FALSE
    ELSE IF ~Truthy(Field(data, "trip")) \/ TypeOf(Field(data, "trip")) # "object"
    THEN FALSE
    ELSE IF ~IsArray(Field(data, "stops")) THEN FALSE
    ELSE IF ~IsArray(Field(data, "activities")) THEN FALSE
    ELSE IF \/ ~Truthy(Field(Field(data, "trip"), "name"))
            \/ TypeOf(Field(Field(data, "trip"), "name")) # "string"
    THEN FALSE
    ELSE TRUE

\* variant of importTrip that resolves every parsed value
ImportTripUnchecked(text) ==
    LET parsed == JsonParse(text)
    IN IF parsed.ok THEN parsed.data ELSE Null

\* importTrip: the parsed data when it is valid, null otherwise
ImportTrip(text) ==
    LET parsed == JsonParse(text)
    IN IF parsed.ok /\ ValidateImportedData(parsed.data) THEN parsed.data ELSE Null

\* `${v}` for the values a JSON text can hold
TemplateString(v) ==
    CASE v.k = "string" -> v.v
      [] v.k = "id" -> "id" \o ToString(v.v)
      [] v.k = "number" -> ToString(v.v)
      [] v.k = "boolean" -> IF v.v THEN "true" ELSE "false"
      [] v.k = "undefined" -> "undefined"
      [] v.k = "null" -> "null"
      [] v.k = "array" -> ""
      [] v.k = "object" -> "[object Object]"

\* the own fields a destructuring pattern sees in an array element
ElementFields(e) == IF e.k = "object" THEN e.v ELSE <<>>

\* prepareImportedTripForInsert throws a TypeError: a property of null or
\* undefined is read, or map is called on a value that is no array
PrepareThrows(data) ==
    \/ data.k \in {"undefined", "null"}
    \/ Field(data, "trip").k \in {"undefined", "null"}
    \/ ~IsArray(Field(data, "stops"))
    \/ ~IsArray(Field(data, "activities"))
    \/ \E e \in Range(Field(data, "stops").v) : e.k \in {"undefined", "null"}
    \/ \E e \in Range(Field(data, "activities").v) : e.k \in {"undefined", "null"}

\* variant of PrepareTrip that spreads the source trip: { ...trip, user_id, name }
PrepareTripSpread(t, userId) ==
    Put(Put(Rest(ElementFields(t), {"id", "created_at", "updated_at"}),
            "user_id", userId),
        "name", Str(TemplateString(Field(t, "name")) \o " (Imported)"))

\* newTrip
PrepareTrip(t, userId) ==
    [user_id |-> userId,
     name |-> Str(TemplateString(Field(t, "name")) \o " (Imported)"),
     description |-> Field(t, "description"),
     start_date |-> Field(t, "start_date"),
     end_date |-> Field(t, "end_date"),
     cover_image |-> Field(t, "cover_image"),
     is_public |-> Bool(FALSE),
     share_code |-> Null,
     total_budget |-> Field(t, "total_budget")]

\* one element of newStops / newActivities: the element without its id and
\* its foreign key, order_index || 0, and the side-channel field
PrepareElement(e, foreignKey, original) ==
    LET rest == Rest(ElementFields(e), {"id", foreignKey})
    IN Put(Put(rest, "order_index", OrElse(Get(rest, "order_index"), Num(0))),
           "_original_stop_id", Get(ElementFields(e), original))

PrepareImportedTripForInsert(importedData, userId) ==
    LET t == Field(importedData, "trip")
        s == Field(importedData, "stops").v
        a == Field(importedData, "activities").v
    IN [trip |-> PrepareTrip(t, userId),
        stops |-> [i \in 1..Len(s) |-> PrepareElement(s[i], "trip_id", "id")],
        activities |->
            [i \in 1..Len(a) |-> PrepareElement(a[i], "trip_stop_id", "trip_stop_id")]]

-----------------------------------------------------------------------------
\* TripView.handleExport and TripView.handleImport

\* Math.random().toString(36).substring(2, 10)
RandomCodes == {"c1", "r1"}

\* stopIdMap.set(key, value)
MapSet(m, key, value) ==
    [x \in (DOMAIN m) \cup {key} |-> IF x = key THEN value ELSE m[x]]

\* handleExport; the downloaded text is the file a later import is given
HandleExport ==
    /\ pc = "idle"
    /\ screen = "trip-view"
    /\ file' = JsonStringify(ExportedData(trip, stops, AllActivities(stops)))
    /\ toasts' = <<Toast("success", "Trip exported successfully!")>>
    /\ writes' = 0
    /\ last' = Call("export")
    /\ prev' = NoCall
    /\ UNCHANGED <<intervalSorts, dbTrips, dbStops, dbActs, nextId, screen, trip, user, stops,
                   pc, op, failures>>

\* variant of ImportActivitiesToInsert without the filter: an activity whose
\* stop is not in the map keeps its original stop id
ImportActivitiesUnfiltered(acts, map) ==
    [i \in 1..Len(acts) |->
        Put(Rest(acts[i], {"_original_stop_id"}), "trip_stop_id",
            IF acts[i]._original_stop_id \in DOMAIN map
            THEN map[acts[i]._original_stop_id]
            ELSE acts[i]._original_stop_id)]

\* activitiesToInsert: the activities whose original stop id is in the map,
\* each with the new stop's id
ImportActivitiesToInsert(acts, map) ==
    LET kept == SelectSeq(acts, LAMBDA a :
                    /\ Truthy(a._original_stop_id)
                    /\ a._original_stop_id \in DOMAIN map)
    IN [i \in 1..Len(kept) |->
           Put(Rest(kept[i], {"_original_stop_id"}), "trip_stop_id",
               map[kept[i]._original_stop_id])]

\* variant of ImportStopsDone that leaves the loop after the first stop
ImportStopsDoneEarly(o) == o.i > 1 \/ Len(o.newStopsData) = 0

\* for (const stopData of newStopsData): every element has been visited
ImportStopsDone(o) == o.i > Len(o.newStopsData)

\* handleImport from the completion of one insert to the next request, or
\* to its end: the next stop insert, then the activities insert when there
\* is an activity to insert
ImportProceed(o) ==
    IF ~ImportStopsDone(o)
    THEN /\ op' = o
         /\ pc' = "import:stop"
         /\ writes' = writes + 1
         /\ toasts' = <<>>
         /\ last' = Call("import:running")
    ELSE LET toInsert == ImportActivitiesToInsert(o.newActivitiesData, o.stopIdMap)
         IN /\ op' = [o EXCEPT !.activitiesToInsert = toInsert]
            /\ IF Len(toInsert) > 0
               THEN /\ pc' = "import:activities"
                    /\ writes' = writes + 1
                    /\ toasts' = <<>>
                    /\ last' = Call("import:running")
               ELSE /\ pc' = "idle"
                    /\ toasts' = <<Toast("success", "Trip imported successfully!")>>
                    /\ last' = Call("import:done")
                    /\ UNCHANGED writes

\* handleImport up to the trip insert request
HandleImport ==
    /\ pc = "idle"
    /\ screen = "trip-view"
    /\ Cardinality(dbTrips) <= MaxImports
    /\ prev' = NoCall
    /\ IF file = Undef \/ ~Truthy(user)
       THEN /\ toasts' = <<Toast("error", "Please sign in to import trips")>>
            /\ writes' = 0
            /\ last' = Call("import:signin")
            /\ UNCHANGED <<pc, op>>
       ELSE LET importedData == ImportTrip(file)
            IN IF ~Truthy(importedData)
               THEN /\ toasts' = <<Toast("error", "Invalid trip file format")>>
                    /\ writes' = 0
                    /\ last' = Call("import:invalid")
                    /\ op' = [importedData |-> importedData]
                    /\ UNCHANGED pc
               ELSE IF PrepareThrows(importedData)
               THEN /\ toasts' = <<Toast("error", "Failed to import trip")>>
                    /\ writes' = 0
                    /\ last' = Call("import:fail")
                    /\ op' = [importedData |-> importedData]
                    /\ UNCHANGED pc
               ELSE \E code \in RandomCodes :
                    LET p == PrepareImportedTripForInsert(importedData,
                                                          Field(user, "id"))
                    IN /\ op' = [importedData |-> importedData,
                                 newTripData |-> p.trip,
                                 newStopsData |-> p.stops,
                                 newActivitiesData |-> p.activities,
                                 code |-> code, createdTrip |-> Null,
                                 stopIdMap |-> <<>>, i |-> 1, created |-> <<>>,
                                 activitiesToInsert |-> <<>>,
                                 preTrips |-> dbTrips, preStops |-> dbStops,
                                 preActs |-> dbActs]
                       /\ pc' = "import:trip"
                       /\ writes' = 1
                       /\ toasts' = <<>>
                       /\ last' = Call("import:running")
    /\ UNCHANGED <<intervalSorts, dbTrips, dbStops, dbActs, nextId, screen, trip, user, stops,
                   failures, file>>

\* the trip insert completes; an error is thrown to the catch block
ImportInsertTrip(ok) ==
    /\ pc = "import:trip"
    /\ IF ok
       THEN LET createdTrip ==
                   InsertRow(TripCols,
                             Put(op.newTripData, "share_code", Str(op.code)),
                             FreshId)
            IN /\ dbTrips' = dbTrips \cup {createdTrip}
               /\ nextId' = nextId + 1
               /\ ImportProceed([op EXCEPT !.createdTrip = createdTrip])
               /\ UNCHANGED failures
       ELSE /\ failures < MaxFailures
            /\ failures' = failures + 1
            /\ pc' = "idle"
            /\ toasts' = <<Toast("error", "Failed to import trip")>>
            /\ last' = Call("import:fail")
            /\ UNCHANGED <<dbTrips, nextId, op, writes>>
    /\ UNCHANGED <<intervalSorts, dbStops, dbActs, screen, trip, user, stops, prev, file>>

\* the insert of stop op.i completes; its error is not looked at
ImportInsertStop(ok) ==
    /\ pc = "import:stop"
    /\ LET stopData == op.newStopsData[op.i]
           original == stopData._original_stop_id
           stopInsertData == Rest(stopData, {"_original_stop_id"})
           createdStop == InsertRow(StopCols,
                                    Put(stopInsertData, "trip_id", op.createdTrip.id),
                                    FreshId)
       IN IF ok
          THEN /\ dbStops' = dbStops \cup {createdStop}
               /\ nextId' = nextId + 1
               /\ ImportProceed([op EXCEPT
                       !.i = @ + 1,
                       !.created = Append(@, createdStop.id),
                       !.stopIdMap = IF Truthy(original)
                                     THEN MapSet(@, original, createdStop.id)
                                     ELSE @])
               /\ UNCHANGED failures
          ELSE /\ failures < MaxFailures
               /\ failures' = failures + 1
               /\ ImportProceed([op EXCEPT !.i = @ + 1, !.created = Append(@, Null)])
               /\ UNCHANGED <<dbStops, nextId>>
    /\ UNCHANGED <<intervalSorts, dbTrips, dbActs, screen, trip, user, stops, prev, file>>

\* the batch insert of the activities completes; its error is not looked at
ImportInsertActivities(ok) ==
    /\ pc = "import:activities"
    /\ LET rows == [i \in 1..Len(op.activitiesToInsert) |->
                      InsertRow(ActCols, op.activitiesToInsert[i], Id(nextId + i))]
       IN IF ok
          THEN /\ dbActs' = dbActs \cup Range(rows)
               /\ nextId' = nextId + Len(rows)
               /\ UNCHANGED failures
          ELSE /\ failures < MaxFailures
               /\ failures' = failures + 1
               /\ UNCHANGED <<dbActs, nextId>>
    /\ pc' = "idle"
    /\ toasts' = <<Toast("success", "Trip imported successfully!")>>
    /\ last' = Call("import:done")
    /\ UNCHANGED <<intervalSorts, dbTrips, dbStops, screen, trip, user, stops, op, writes,
                   prev, file>>

-----------------------------------------------------------------------------
\* The trip view over a store that holds one trip with its stops and
\* activities: export and import

\* the trip the trip view shows: public, with a share code
SharedTrip ==
    [TripRow(Id(1), U1, Str("Goa"), TRUE, Str("c1")) EXCEPT
        !.description = Str("beach"), !.start_date = Str("d1"),
        !.end_date = Str("d9"), !.cover_image = Str("img"),
        !.total_budget = Num(900)]

\* stop i of the trip and activity j of stop i
SrcStop(i) ==
    InsertRow(StopCols,
              [trip_id |-> Id(1), city_name |-> Str("city" \o ToString(i)),
               country |-> Str("India"), start_date |-> Str("d" \o ToString(i)),
               order_index |-> Num(i - 1), transport_cost |-> Num(100 * i),
               accommodation_cost |-> Num(0)],
              Id(1 + i))

SrcActivity(i, j) ==
    InsertRow(ActCols,
              [trip_stop_id |-> Id(1 + i),
               name |-> Str("act" \o ToString(i) \o ToString(j)),
               estimated_cost |-> Num(10 * j), order_index |-> Num(j - 1),
               category |-> Str("Food"), is_custom |-> Bool(TRUE)],
              Id(1 + MaxSrcStops + (i - 1) * MaxSrcActs + j))

\* the identifiers the store has handed out for the trip, its stops and
\* its activities
SrcIds == 1 + MaxSrcStops + MaxSrcStops * MaxSrcActs

\* a document as a JSON text can hold it: absent fields are left out
Document(t, s, a) ==
    JsonStringify(Obj([version |-> Str(EXPORT_VERSION), trip |-> t,
                       stops |-> s, activities |-> a]))

\* hand-written files: texts that are no JSON, values that are no object,
\* and objects with every shape of trip, stops and activities
TripShapes ==
    {Undef, Null, Str("Goa"), Num(1), Arr(<<>>)} \cup
    {JsonValue(Obj([id |-> Id(1), name |-> n])) :
        n \in {Undef, Null, Str(""), Str("Goa"), Num(5), Bool(TRUE)}}

ListShapes == {Undef, Null, Str("x"), Obj(<<>>), Arr(<<>>)}

ShapeFiles ==
    {NoJson} \cup
    {JsonStringify(v) : v \in {Null, Str("x"), Num(7), Bool(TRUE), Arr(<<>>)}} \cup
    {Document(t, s, a) : t \in TripShapes, s \in ListShapes, a \in ListShapes}

\* hand-written files with stops and activities: an activity of a stop
\* that is not in the document, a stop without id with an activity without
\* stop id, and a stop that is null
GraphFiles ==
    {Document(Obj(SharedTrip), Arr(<<Obj(SrcStop(1))>>),
              Arr(<<Obj(SrcActivity(1, 1)),
                    Obj([SrcActivity(1, 1) EXCEPT !.trip_stop_id = Id(0),
                                                 !.name = Str("stray")])>>)),
     Document(Obj(SharedTrip), Arr(<<Obj(Rest(SrcStop(1), {"id"}))>>),
              Arr(<<Obj(Rest(SrcActivity(1, 1), {"trip_stop_id"}))>>)),
     Document(Obj(SharedTrip), Arr(<<Null>>), Arr(<<>>))}

InitImport ==
    /\ dbTrips = {SharedTrip}
    /\ trip = SharedTrip
    /\ \E n \in 0..MaxSrcStops : \E counts \in [1..n -> 0..MaxSrcActs] :
          /\ dbStops = {SrcStop(i) : i \in 1..n}
          /\ dbActs = UNION {{SrcActivity(i, j) : j \in 1..counts[i]} : i \in 1..n}
          /\ file \in {Undef} \cup (IF n = 0 THEN ShapeFiles \cup GraphFiles ELSE {})
    /\ nextId = SrcIds
    /\ screen = "trip-view"
    /\ user \in {Null, SignedIn(U2)}
    /\ stops \in LoadedStops(trip)
    /\ pc = "idle"
    /\ op = [pending |-> {}]
    /\ toasts = <<>>
    /\ writes = 0
    /\ last = NoCall
    /\ prev = NoCall
    /\ failures = 0
    /\ intervalSorts = TRUE

NextImport ==
    \/ HandleExport
    \/ HandleImport
    \/ \E ok \in BOOLEAN : ImportInsertTrip(ok)
    \/ \E ok \in BOOLEAN : ImportInsertStop(ok)
    \/ \E ok \in BOOLEAN : ImportInsertActivities(ok)

SpecImport == InitImport /\ [][NextImport]_vars

-----------------------------------------------------------------------------
\* JavaScript numbers: the quotients and products the screens compute are
\* IEEE-754 binary64 values, rounded to nearest, ties to even. A natural
\* number is held as a sequence of limbs, most significant first; a finite
\* non-zero number is s * m * 2^e with a mantissa m of 53 bits, which is
\* five limbs with the first limb 1.

\* the k with d * 2^k <= n < d * 2^(k+1), for n, d > 0
RECURSIVE Log2Floor(_, _)
Log2Floor(n, d) ==
    IF n < d THEN Log2Floor(2 * n, d) - 1
    ELSE IF n >= 2 * d THEN Log2Floor(n, 2 * d) + 1
    ELSE 0

\* the limbs are digits to the base 2^13
LimbBase == 2 ^ 13

LimbBits == Log2Floor(LimbBase, 1)

Abs(n) == IF n < 0 THEN -n ELSE n

RECURSIVE Pow2(_)
Pow2(k) == IF k = 0 THEN 1 ELSE 2 * Pow2(k - 1)

Zeros(k) == [i \in 1..k |-> 0]

RECURSIVE BigTrim(_)
BigTrim(a) == IF Len(a) > 0 /\ Head(a) = 0 THEN BigTrim(Tail(a)) ELSE a

RECURSIVE BigOfInt(_)
BigOfInt(n) ==
    IF n = 0 THEN <<>> ELSE Append(BigOfInt(n \div LimbBase), n % LimbBase)

\* quotient and remainder of a by a divisor below 2^17
RECURSIVE BigDivStep(_, _, _, _)
BigDivStep(a, d, r, q) ==
    IF a = <<>> THEN [q |-> BigTrim(q), r |-> r]
    ELSE LET cur == r * LimbBase + Head(a)
         IN BigDivStep(Tail(a), d, cur % d, Append(q, cur \div d))

BigDivSmall(a, d) == BigDivStep(a, d, 0, <<>>)

RECURSIVE BigInc(_)
BigInc(a) ==
    IF a = <<>> THEN <<1>>
    ELSE IF a[Len(a)] + 1 < LimbBase THEN [a EXCEPT ![Len(a)] = @ + 1]
    ELSE Append(BigInc(SubSeq(a, 1, Len(a) - 1)), 0)

\* column k of the product: the sum of a_i * b_(k-i) over the limbs, limb 0
\* being the least significant
RECURSIVE BigColumn(_, _, _, _)
BigColumn(a, b, k, i) ==
    IF i > k THEN 0
    ELSE (IF i < Len(a) /\ k - i < Len(b)
          THEN a[Len(a) - i] * b[Len(b) - (k - i)] ELSE 0)
         + BigColumn(a, b, k, i + 1)

RECURSIVE BigCarry(_, _, _, _)
BigCarry(a, b, k, carry) ==
    IF k >= Len(a) + Len(b) THEN <<>>
    ELSE LET c == BigColumn(a, b, k, 0) + carry
         IN Append(BigCarry(a, b, k + 1, c \div LimbBase), c % LimbBase)

BigMul(a, b) == BigTrim(BigCarry(a, b, 0, 0))

\* a < b for numbers of equal length
RECURSIVE BigLess(_, _)
BigLess(a, b) ==
    IF a = <<>> THEN FALSE
    ELSE Head(a) < Head(b) \/ (Head(a) = Head(b) /\ BigLess(Tail(a), Tail(b)))

RECURSIVE BitLengthOfInt(_)
BitLengthOfInt(n) == IF n = 0 THEN 0 ELSE 1 + BitLengthOfInt(n \div 2)

BitLength(a) == IF a = <<>> THEN 0 ELSE LimbBits * (Len(a) - 1) + BitLengthOfInt(a[1])

NaN == [k |-> "nan"]

Infinite(s) == [k |-> "inf", s |-> s]

FloatZero == [k |-> "zero"]

Finite(s, m, e) == [k |-> "fin", s |-> s, m |-> m, e |-> e]

\* q * 2^(e-1), q of 54 bits, rounded to 53 bits: up when the bit that is
\* dropped is set and either a lower bit was set or the mantissa is odd
RoundMantissa(q, sticky, e) ==
    LET h == BigDivSmall(q, 2)
        up == h.r = 1 /\ (sticky \/ h.q[Len(h.q)] % 2 = 1)
        m == IF up THEN BigInc(h.q) ELSE h.q
    IN IF m[1] = 2 THEN [m |-> <<1>> \o Zeros(4), e |-> e + 1]
       ELSE [m |-> m, e |-> e]

\* p * 2^e, p of at least 54 bits, rounded to 53 bits
RoundBig(p, e, sticky) ==
    LET t == BitLength(p) - 54
        kept == SubSeq(p, 1, Len(p) - (t \div LimbBits))
        dropped == SubSeq(p, Len(p) - (t \div LimbBits) + 1, Len(p))
        qr == BigDivSmall(kept, Pow2(t % LimbBits))
    IN RoundMantissa(qr.q,
                     sticky \/ qr.r # 0 \/ \E i \in 1..Len(dropped) : dropped[i] # 0,
                     e + t + 1)

\* a / b for integers of magnitude below 2^17
FloatDiv(a, b) ==
    IF b = 0 THEN (IF a = 0 THEN NaN ELSE Infinite(IF a < 0 THEN -1 ELSE 1))
    ELSE IF a = 0 THEN FloatZero
    ELSE LET n == Abs(a)
             d == Abs(b)
             s == 53 - Log2Floor(n, d)
             numerator == BigOfInt(n * Pow2(s % LimbBits)) \o Zeros(s \div LimbBits)
             qr == BigDivSmall(numerator, d)
             r == RoundBig(qr.q, -s, qr.r # 0)
         IN Finite(IF (a < 0) = (b < 0) THEN 1 ELSE -1, r.m, r.e)

\* the number an integer is
FloatOfInt(n) == FloatDiv(n, 1)

\* x * y for y finite and not zero
FloatMul(x, y) ==
    CASE x.k = "nan" -> NaN
      [] x.k = "zero" -> FloatZero
      [] x.k = "inf" -> Infinite(x.s * y.s)
      [] x.k = "fin" ->
            LET r == RoundBig(BigMul(x.m, y.m), x.e + y.e, FALSE)
            IN Finite(x.s * y.s, r.m, r.e)

FloatSign(x) == IF x.k = "zero" THEN 0 ELSE x.s

\* |x| < |y| for x, y of the same sign and not zero
MagnitudeLess(x, y) ==
    IF x.k = "inf" THEN FALSE
    ELSE IF y.k = "inf" THEN TRUE
    ELSE x.e < y.e \/ (x.e = y.e /\ BigLess(x.m, y.m))

\* x < y; false when either is NaN
FloatLess(x, y) ==
    IF x.k = "nan" \/ y.k = "nan" THEN FALSE
    ELSE IF FloatSign(x) # FloatSign(y) THEN FloatSign(x) < FloatSign(y)
    ELSE IF FloatSign(x) = 0 THEN FALSE
    ELSE IF FloatSign(x) = 1 THEN MagnitudeLess(x, y)
    ELSE MagnitudeLess(y, x)

\* x > y
FloatGreater(x, y) == FloatLess(y, x)

\* x <= y
FloatAtMost(x, y) ==
    /\ x.k # "nan"
    /\ y.k # "nan"
    /\ ~FloatLess(y, x)

-----------------------------------------------------------------------------
\* Dates and labels of the trip screens

\* the ISO dates the date inputs are given, in calendar order
Calendar == <<"2024-01-01", "2024-01-02", "2024-01-03", "2024-01-04", "2024-01-05">>

\* the ISO date string of the n-th day of the calendar
Day(n) == Str(Calendar[n])

\* new Date(v) and parseISO(v) of an ISO date: the day it names, counted in
\* days; two dates are 86400000 ms apart for every day between them
ParseISO(v) == CHOOSE n \in 1..Len(Calendar) : Calendar[n] = v.v

\* differenceInDays(later, earlier) of two parsed dates
DifferenceInDays(later, earlier) == later - earlier

\* a string held as its characters
Text(chars) == [k |-> "string", v |-> chars]

UpperCase == <<"A", "B", "C", "D", "E", "F", "G", "H", "I", "J", "K", "L", "M",
               "N", "O", "P", "Q", "R", "S", "T", "U", "V", "W", "X", "Y", "Z">>

LowerCase == <<"a", "b", "c", "d", "e", "f", "g", "h", "i", "j", "k", "l", "m",
               "n", "o", "p", "q", "r", "s", "t", "u", "v", "w", "x", "y", "z">>

\* chars.toLowerCase()
ToLowerCase(chars) ==
    [i \in 1..Len(chars) |->
        IF \E n \in 1..Len(UpperCase) : UpperCase[n] = chars[i]
        THEN LowerCase[CHOOSE n \in 1..Len(UpperCase) : UpperCase[n] = chars[i]]
        ELSE chars[i]]

\* chars.includes(part)
Includes(chars, part) ==
    \E i \in 0..(Len(chars) - Len(part)) : SubSeq(chars, i + 1, i + Len(part)) = part

\* Number(v || 0) and (v || 0) for a column that holds a number or null
CostOf(v) == OrElse(v, Num(0)).v

RECURSIVE SumSeq(_)
SumSeq(s) == IF Len(s) = 0 THEN 0 ELSE Head(s) + SumSeq(Tail(s))

Max(a, b) == IF a >= b THEN a ELSE b

-----------------------------------------------------------------------------
\* components/budget-screen: the cost breakdown of the budget screen

\* the category test looks for the lower-case words in the label as typed
IsMealCategoryAsTyped(category) ==
    /\ category.k \notin {"undefined", "null"}
    /\ \/ Includes(category.v, <<"f", "o", "o", "d">>)
       \/ Includes(category.v, <<"d", "i", "n", "i", "n", "g">>)

\* activity.category?.toLowerCase().includes("food") ||
\* activity.category?.toLowerCase().includes("dining")
IsMealCategory(category) ==
    /\ category.k \notin {"undefined", "null"}
    /\ \/ Includes(ToLowerCase(category.v), <<"f", "o", "o", "d">>)
       \/ Includes(ToLowerCase(category.v), <<"d", "i", "n", "i", "n", "g">>)

\* the share of an activity's cost that goes to the bucket of meals
\* (meal = TRUE) or of activities (meal = FALSE)
BucketCost(activity, meal) ==
    IF IsMealCategory(activity.category) = meal THEN CostOf(activity.estimated_cost) ELSE 0

\* estimatedMeals: 1500 for every stop
MealAllowance == 1500

\* the estimate is added to the meals of the activities
MealsPlusEstimate(meals, estimatedMeals) == meals + estimatedMeals

\* meals || estimatedMeals
MealsOrEstimate(meals, estimatedMeals) == IF meals # 0 THEN meals ELSE estimatedMeals

\* calculateCosts()
CalculateCosts(s) ==
    LET acts == AllActivities(s)
        transport == SumSeq([i \in 1..Len(s) |-> CostOf(s[i].transport_cost)])
        accommodation == SumSeq([i \in 1..Len(s) |-> CostOf(s[i].accommodation_cost)])
        activities == SumSeq([i \in 1..Len(acts) |-> BucketCost(acts[i], FALSE)])
        meals == SumSeq([i \in 1..Len(acts) |-> BucketCost(acts[i], TRUE)])
        estimatedMeals == Len(s) * MealAllowance
    IN [transport |-> transport, accommodation |-> accommodation,
        activities |-> activities,
        meals |-> MealsOrEstimate(meals, estimatedMeals)]

\* the total leaves the meals out
TotalWithoutMeals(costs) == costs.transport + costs.accommodation + costs.activities

\* totalEstimated
TotalEstimated(costs) ==
    costs.transport + costs.accommodation + costs.activities + costs.meals

\* isOverBudget
IsOverBudget(remaining) == remaining < 0

\* the days the average is taken over:
\* Math.max(1, Math.ceil((end.getTime() - start.getTime()) / 86400000))
AverageDays(t) == Max(1, ParseISO(t.end_date) - ParseISO(t.start_date))

\* averagePerDay
AveragePerDay(t, totalEstimated) ==
    IF Truthy(t.start_date) /\ Truthy(t.end_date)
    THEN FloatDiv(totalEstimated, AverageDays(t))
    ELSE FloatZero

\* the values the budget screen shows
BudgetScreen(t, s) ==
    LET costs == CalculateCosts(s)
        totalEstimated == TotalEstimated(costs)
        budget == CostOf(t.total_budget)
        remaining == budget - totalEstimated
    IN [costs |-> costs, totalEstimated |-> totalEstimated, budget |-> budget,
        remaining |-> remaining, isOverBudget |-> IsOverBudget(remaining),
        averagePerDay |-> AveragePerDay(t, totalEstimated)]

-----------------------------------------------------------------------------
\* components/trip-summary-panel: duration, pace and estimated budget

\* differenceInDays(parseISO(end), parseISO(start)) + 1 of a trip or a stop
\* that has both dates
InclusiveDays(r) == DifferenceInDays(ParseISO(r.end_date), ParseISO(r.start_date)) + 1

\* tripDuration
TripDuration(t) ==
    IF Truthy(t.start_date) /\ Truthy(t.end_date) THEN InclusiveDays(t) ELSE 0

\* stops.reduce((sum, stop) => sum + (stop.activities?.length || 0), 0)
TotalActivities(s) == SumSeq([i \in 1..Len(s) |-> Len(s[i].activities.v)])

\* the label of a pace whose upper threshold belongs to Packed
PaceLabelOpenAbove(activitiesPerDay) ==
    IF FloatLess(activitiesPerDay, FloatOfInt(2)) THEN "Relaxed"
    ELSE IF FloatLess(activitiesPerDay, FloatOfInt(4)) THEN "Balanced"
    ELSE "Packed"

\* calculateTripPace: the label of a number of activities per day
PaceLabel(activitiesPerDay) ==
    IF FloatLess(activitiesPerDay, FloatOfInt(2)) THEN "Relaxed"
    ELSE IF FloatAtMost(activitiesPerDay, FloatOfInt(4)) THEN "Balanced"
    ELSE "Packed"

\* calculateTripPace(trip, stops).label
CalculateTripPace(t, s) ==
    IF ~Truthy(t.start_date) \/ ~Truthy(t.end_date) \/ Len(s) = 0 THEN "Planning"
    ELSE PaceLabel(FloatDiv(TotalActivities(s), InclusiveDays(t)))

\* calculateEstimatedBudget(trip, stops)
CalculateEstimatedBudget(t, s) ==
    LET acts == AllActivities(s)
        total == SumSeq([i \in 1..Len(s) |->
                            CostOf(s[i].transport_cost) + CostOf(s[i].accommodation_cost)])
                 + SumSeq([i \in 1..Len(acts) |-> CostOf(acts[i].estimated_cost)])
    IN IF Truthy(t.start_date) /\ Truthy(t.end_date)
       THEN total + InclusiveDays(t) * MealAllowance
       ELSE total

\* the values the summary panel shows
TripSummaryPanel(t, s) ==
    [tripDuration |-> TripDuration(t),
     estimatedBudget |-> CalculateEstimatedBudget(t, s),
     pace |-> CalculateTripPace(t, s)]

-----------------------------------------------------------------------------
\* components/conflict-alerts: the three passes over the stops

RECURSIVE Concat(_)
Concat(lists) == IF Len(lists) = 0 THEN <<>> ELSE Head(lists) \o Concat(Tail(lists))

\* an alert; the message is held as the names its text is built from
Alert(type, severity, names) == [type |-> type, severity |-> severity, message |-> names]

\* the literal 1.2
OverBudgetFactor == FloatDiv(6, 5)

\* totalStopCost / stopDays
StopDailyCost(stop) ==
    LET stopBudget == CostOf(stop.transport_cost) + CostOf(stop.accommodation_cost)
        activitiesCost == SumSeq([j \in 1..Len(stop.activities.v) |->
                                     CostOf(stop.activities.v[j].estimated_cost)])
    IN FloatDiv(stopBudget + activitiesCost, InclusiveDays(stop))

\* trip.total_budget > 0
HasBudget(t) == t.total_budget.k = "number" /\ t.total_budget.v > 0

\* trip.start_date && trip.end_date && trip.total_budget > 0
BudgetPassRuns(t) == Truthy(t.start_date) /\ Truthy(t.end_date) /\ HasBudget(t)

\* the alerts of the budget pass
BudgetPass(t, s) ==
    IF BudgetPassRuns(t)
    THEN LET dailyBudget == FloatDiv(t.total_budget.v, InclusiveDays(t))
         IN Concat([i \in 1..Len(s) |->
                IF /\ Truthy(s[i].start_date)
                   /\ Truthy(s[i].end_date)
                   /\ FloatGreater(StopDailyCost(s[i]), FloatMul(dailyBudget, OverBudgetFactor))
                THEN <<Alert("budget", "warning", <<s[i].city_name>>)>>
                ELSE <<>>])
    ELSE <<>>

\* a stop is dense from five activities a day on
IsDenseFromFive(activitiesPerDay) == FloatAtMost(FloatOfInt(5), activitiesPerDay)

\* activitiesPerDay > 5
IsDense(activitiesPerDay) == FloatGreater(activitiesPerDay, FloatOfInt(5))

\* the alerts of the density pass
DensityPass(s) ==
    Concat([i \in 1..Len(s) |->
        IF /\ Len(s[i].activities.v) > 0
           /\ Truthy(s[i].start_date)
           /\ Truthy(s[i].end_date)
           /\ IsDense(FloatDiv(Len(s[i].activities.v), InclusiveDays(s[i])))
        THEN <<Alert("activities", "warning", <<s[i].city_name>>)>>
        ELSE <<>>])

\* isWithinInterval(date, {start, end}) of date-fns for an interval whose
\* start is not after its end
IsWithinInterval(date, start, end) == start <= date /\ date <= end

\* isWithinInterval for an interval whose start is after its end: a release
\* of the library that puts the two ends in order first (sorts = TRUE)
\* answers for the interval from end to start; a release that does not
\* throws a RangeError
IsWithinInverted(date, start, end) == end <= date /\ date <= start

\* the date pass calls isWithinInterval with an interval whose start is
\* after its end
DatePassInverted(s) ==
    \E i \in 1..Len(s) :
        /\ Truthy(s[i].start_date)
        /\ Truthy(s[i].end_date)
        /\ ParseISO(s[i].start_date) > ParseISO(s[i].end_date)
        /\ \E j \in 1..Len(s[i].activities.v) : Truthy(s[i].activities.v[j].scheduled_date)

\* the alerts of the date pass when no call throws
DatePass(s) ==
    Concat([i \in 1..Len(s) |->
        IF Truthy(s[i].start_date) /\ Truthy(s[i].end_date)
        THEN LET stopStart == ParseISO(s[i].start_date)
                 stopEnd == ParseISO(s[i].end_date)
                 acts == s[i].activities.v
             IN Concat([j \in 1..Len(acts) |->
                    IF /\ Truthy(acts[j].scheduled_date)
                       /\ ~(IF stopStart <= stopEnd
                            THEN IsWithinInterval(ParseISO(acts[j].scheduled_date),
                                                  stopStart, stopEnd)
                            ELSE IsWithinInverted(ParseISO(acts[j].scheduled_date),
                                                  stopStart, stopEnd))
                    THEN <<Alert("date", "error", <<acts[j].name, s[i].city_name>>)>>
                    ELSE <<>>])
        ELSE <<>>])

\* the alerts of the date pass are put first
AlertsDateFirst(budget, density, date) == date \o budget \o density

\* the one list the three passes push to, one pass after the other
AlertsPushed(budget, density, date) == budget \o density \o date

\* the first stop at which the date pass calls isWithinInterval with an
\* interval whose start is after its end
FirstInverted(s) ==
    CHOOSE i \in 1..Len(s) :
        /\ DatePassInverted(SubSeq(s, 1, i))
        /\ ~DatePassInverted(SubSeq(s, 1, i - 1))

\* ConflictAlerts({trip, stops}): the alerts in the order they are pushed,
\* and the error the render ends with when isWithinInterval throws: the
\* date pass has then pushed the alerts of the stops before that stop
ConflictAlerts(t, s, sorts) ==
    IF DatePassInverted(s) /\ ~sorts
    THEN [threw |-> "RangeError",
          alerts |-> AlertsPushed(BudgetPass(t, s), DensityPass(s),
                                  DatePass(SubSeq(s, 1, FirstInverted(s) - 1)))]
    ELSE [threw |-> "", alerts |-> AlertsPushed(BudgetPass(t, s), DensityPass(s), DatePass(s))]

-----------------------------------------------------------------------------
\* The trip screens: a trip with dates and a budget, its stops and their
\* activities as the forms of the builder can leave them, and the values
\* the budget screen, the summary panel and the conflict alerts show

MaxScreenStops == 2

\* category labels as typed
Food == Text(<<"F", "o", "o", "d">>)
FineDining == Text(<<"F", "i", "n", "e", " ", "D", "i", "n", "i", "n", "g">>)
Seafood == Text(<<"S", "E", "A", "F", "O", "O", "D">>)
Sightseeing == Text(<<"S", "i", "g", "h", "t", "s", "e", "e", "i", "n", "g">>)
Dinner == Text(<<"d", "i", "n", "n", "e", "r">>)

\* an activity as the form gives it: category, estimated cost, scheduled date
Planned(category, cost, date) == [category |-> category, cost |-> cost, date |-> date]

\* a stop as the form gives it
Visit(start, end, transport, accommodation, acts) ==
    [start |-> start, end |-> end, transport |-> transport,
     accommodation |-> accommodation, acts |-> acts]

Visits ==
    {Visit(Null, Null, Num(1000), Num(2000), <<Planned(Sightseeing, Num(500), Null)>>),
     Visit(Null, Null, Null, Null,
           <<Planned(Food, Num(300), Null), Planned(FineDining, Num(200), Null),
             Planned(Null, Num(100), Null), Planned(Seafood, Null, Null)>>),
     Visit(Day(1), Null, Num(0), Num(700),
           <<Planned(Food, Num(0), Day(3)), Planned(Dinner, Num(50), Null)>>),
     Visit(Day(1), Day(1), Num(400), Null, <<>>),
     Visit(Day(1), Day(1), Num(1200), Num(0),
           <<Planned(Seafood, Null, Day(1))>> \o [j \in 1..4 |-> Planned(Null, Null, Null)]),
     Visit(Day(2), Day(3), Num(1000), Num(1000),
           <<Planned(Sightseeing, Num(400), Day(2)), Planned(Food, Null, Day(3)),
             Planned(Null, Num(0), Day(4)), Planned(Sightseeing, Null, Day(1)),
             Planned(Null, Null, Null)>>),
     Visit(Day(2), Day(2), Null, Null, [j \in 1..6 |-> Planned(Null, Num(100), Null)]),
     Visit(Day(4), Day(2), Num(100), Null,
           <<Planned(Null, Null, Day(3)), Planned(Null, Null, Day(5))>>),
     Visit(Day(3), Day(2), Null, Num(100), <<Planned(Null, Null, Null)>>)}

\* the i-th stop of the trip and its activities as the store holds them
ScreenStop(visit, i) ==
    Put(InsertRow(StopCols,
                  [trip_id |-> Id(1), city_name |-> Str("city" \o ToString(i)),
                   start_date |-> visit.start, end_date |-> visit.end,
                   order_index |-> Num(i - 1), transport_cost |-> visit.transport,
                   accommodation_cost |-> visit.accommodation],
                  Id(1 + i)),
        "activities",
        Arr([j \in 1..Len(visit.acts) |->
                InsertRow(ActCols,
                          [trip_stop_id |-> Id(1 + i),
                           name |-> Str("act" \o ToString(i) \o ToString(j)),
                           scheduled_date |-> visit.acts[j].date,
                           estimated_cost |-> visit.acts[j].cost,
                           order_index |-> Num(j - 1),
                           category |-> visit.acts[j].category,
                           is_custom |-> Bool(TRUE)],
                          Id(10 * i + j))]))

\* the dates of the trip form: none, one, and both in either order
TripDates ==
    {<<Null, Null>>, <<Day(1), Null>>, <<Day(1), Day(1)>>, <<Day(1), Day(2)>>,
     <<Day(1), Day(3)>>, <<Day(2), Day(1)>>}

TripBudgets == {Num(0), Num(1000)}

ScreenTrip(dates, budget) ==
    [BuilderTrip EXCEPT !.start_date = dates[1], !.end_date = dates[2],
                        !.total_budget = budget]

InitScreens ==
    /\ \E dates \in TripDates, budget \in TripBudgets :
          /\ trip = ScreenTrip(dates, budget)
          /\ dbTrips = {trip}
    /\ \E n \in 0..MaxScreenStops : \E visits \in [1..n -> Visits] :
          /\ stops = [i \in 1..n |-> ScreenStop(visits[i], i)]
          /\ dbStops = {Rest(stops[i], {"activities"}) : i \in 1..n}
          /\ dbActs = UNION {Range(stops[i].activities.v) : i \in 1..n}
    /\ nextId = 10 * MaxScreenStops + 9
    /\ screen \in {"trip-view", "budget"}
    /\ user = SignedIn(U1)
    /\ pc = "idle"
    /\ op = [pending |-> {}]
    /\ toasts = <<>>
    /\ writes = 0
    /\ last = NoCall
    /\ prev = NoCall
    /\ failures = 0
    /\ intervalSorts \in BOOLEAN
    /\ file = Undef

\* a render that puts the activities of every stop in the opposite order
ShowsReordering(h, shown) ==
    /\ last' = [h |-> h, shown |-> shown]
    /\ stops' = [i \in 1..Len(stops) |->
                    [stops[i] EXCEPT !.activities =
                        Arr([j \in 1..Len(@.v) |-> @.v[Len(@.v) + 1 - j]])]]
    /\ UNCHANGED <<intervalSorts, dbTrips, dbStops, dbActs, nextId, screen, trip, user,
                   pc, op, toasts, writes, prev, failures, file>>

\* a render leaves everything but the values it shows as it was
Shows(h, shown) ==
    /\ last' = [h |-> h, shown |-> shown]
    /\ UNCHANGED <<intervalSorts, dbTrips, dbStops, dbActs, nextId, screen, trip, user, stops, pc,
                   op, toasts, writes, prev, failures, file>>

\* the budget screen renders
RenderBudgetScreen ==
    /\ screen = "budget"
    /\ Shows("BudgetScreen", BudgetScreen(trip, stops))

\* the summary panel of the trip view renders
RenderTripSummaryPanel ==
    /\ screen = "trip-view"
    /\ Shows("TripSummaryPanel", TripSummaryPanel(trip, stops))

\* the conflict alerts of the trip view render
RenderConflictAlerts ==
    /\ screen = "trip-view"
    /\ Shows("ConflictAlerts", ConflictAlerts(trip, stops, intervalSorts))

NextScreens ==
    \/ RenderBudgetScreen
    \/ RenderTripSummaryPanel
    \/ RenderConflictAlerts

SpecScreens == InitScreens /\ [][NextScreens]_vars

-----------------------------------------------------------------------------
\* Properties of the stop reordering engine

OrderIndexIn(table, id) == (CHOOSE r \in table : r.id = id).order_index

\* the called stop has no neighbour in the requested direction, or is not
\* in the list
BoundaryCall(s, id, dir) ==
    \/ \A i \in 1..Len(s) : s[i].id # id
    \/ dir = "up" /\ s[1].id = id
    \/ dir = "down" /\ s[Len(s)].id = id

\* the step in which a reorder that issued its updates returns without error
ReorderSucceeds == pc = "reorder" /\ pc' = "idle" /\ op.errors = {}

\* the neighbour the running reorder exchanges with
Neighbour == op.preMem[op.new + 1].id

\* C1: a successful moveStop on a stop with a neighbour in the requested
\* direction exchanges exactly the order_index values of the two stops, in
\* the store and in memory: each of the two ends with the other's former
\* order_index, and every other stop, of this trip or another, is as before.
C1_SwapExchangesOrderIndex ==
    [][ReorderSucceeds =>
          /\ OrderIndexIn(dbStops', op.stopId) = OrderIndexIn(op.preDb, Neighbour)
          /\ OrderIndexIn(dbStops', Neighbour) = OrderIndexIn(op.preDb, op.stopId)
          /\ {r \in dbStops' : r.id \notin {op.stopId, Neighbour}}
               = {r \in op.preDb : r.id \notin {op.stopId, Neighbour}}
          /\ stops'[op.new + 1].id = op.stopId
          /\ stops'[op.cur + 1].id = Neighbour
          /\ stops'[op.new + 1].order_index = op.preMem[op.new + 1].order_index
          /\ stops'[op.cur + 1].order_index = op.preMem[op.cur + 1].order_index
          /\ \A i \in 1..Len(op.preMem) :
                i \notin {op.cur + 1, op.new + 1} => stops'[i] = op.preMem[i]
       ]_vars

\* C2: moveStop up on the first stop, down on the last stop, or with a stop
\* id that is not in the list is a no-op: no store write is issued, no
\* order_index changes and the in-memory list is unchanged.
C2_BoundaryMoveIsNoop ==
    [][\A id \in Range(Ids(stops)) \cup {NoSuchStop}, dir \in {"up", "down"} :
          (HandleReorderStop(id, dir) /\ BoundaryCall(stops, id, dir)) =>
             /\ pc' = "idle"
             /\ writes' = 0
             /\ toasts' = <<>>
             /\ dbStops' = dbStops
             /\ stops' = stops
       ]_vars

C2_Witness ==
    /\ pc = "idle"
    /\ last.h = "reorder:noop"
    /\ Len(stops) >= 2
    /\ writes = 0

\* the order_index values of the trip's stops in the table are 0..n-1, each once
IsPermutation(table, t) ==
    LET rows == TripStopsIn(table, t)
    IN /\ \A r \in rows : r.order_index.v \in 0..(Cardinality(rows) - 1)
       /\ \A r1, r2 \in rows : r1.id # r2.id => r1.order_index # r2.order_index

\* C3: when the order_index values are a permutation of 0..n-1, a successful
\* move up of the stop at index k > 0 followed by a successful move down of
\* that stop, now at index k-1, restores every stop's order_index in the
\* store and the original order of the in-memory list.
C3_UpThenDownRestores ==
    [][(/\ ReorderSucceeds
        /\ op.dir = "down"
        /\ prev.h = "up"
        /\ op.stopId = prev.stopId
        /\ op.cur = prev.cur - 1
        /\ IsPermutation(prev.preDb, trip)
        /\ IsPermutation(Range(prev.preMem), trip)) =>
          /\ dbStops' = prev.preDb
          /\ Ids(stops') = Ids(prev.preMem)
       ]_vars

\* C4: after any sequence of successful add-stop, delete-stop, move-stop and
\* add-spot operations, no two stops of one trip have the same order_index.
C4_OrderIndexUnique ==
    (failures = 0 /\ pc = "idle") =>
        \A r1, r2 \in dbStops :
            (r1.trip_id = r2.trip_id /\ r1.id # r2.id) => r1.order_index # r2.order_index

\* the parts of C5
C5_IssuesBoth ==
    \A id \in Range(Ids(stops)), dir \in {"up", "down"} :
        (HandleReorderStop(id, dir) /\ ~BoundaryCall(stops, id, dir)) =>
            /\ pc' = "reorder"
            /\ writes' = 2
            /\ op'.pending = {1, 2}
            /\ {op'.updates[1].id, op'.updates[2].id}
                  = {id, stops[FindIndex(stops, id) + (IF dir = "up" THEN 0 ELSE 2)].id}
            /\ Ids(stops') = Ids(stops)

C5_KeepsPositionsWhileWaiting ==
    (pc = "reorder" /\ pc' = "reorder") => Ids(stops') = Ids(stops)

C5_OneOutcome ==
    (pc = "reorder" /\ pc' = "idle") =>
        /\ op.pending = {}
        /\ IF op.errors # {}
           THEN /\ toasts' = <<Toast("error", "Failed to reorder stops")>>
                /\ Ids(stops') = Ids(op.preMem)
           ELSE /\ toasts' = <<Toast("success", "Itinerary reordered")>>
                /\ Ids(stops')
                     = [Ids(op.preMem) EXCEPT ![op.cur + 1] = op.preMem[op.new + 1].id,
                                              ![op.new + 1] = op.preMem[op.cur + 1].id]

\* C5: a moveStop that is not a boundary no-op issues both updates and waits
\* for both; when at least one fails there is exactly one failure
\* notification, no success notification, and the positions in the in-memory
\* list stay as they were; the positions are exchanged only when both updates
\* have completed without error.
C5_BothUpdatesThenOneOutcome ==
    [][C5_IssuesBoth /\ C5_KeepsPositionsWhileWaiting /\ C5_OneOutcome]_vars

C5_Witness ==
    /\ pc = "idle"
    /\ last.h = "reorder:fail"
    /\ toasts = <<Toast("error", "Failed to reorder stops")>>
    /\ Len(stops) = 2
    /\ failures = 1

-----------------------------------------------------------------------------
\* Properties of the export/import codec

\* the locals of a handleImport call that got past validation and prepare
ImportLocals == "created" \in DOMAIN op

NewStops == dbStops \ op.preStops

NewActivities == dbActs \ op.preActs

DocStops == Field(op.importedData, "stops").v

DocActivities == Field(op.importedData, "activities").v

\* every identifier the document carries for its trip and its stops
DocIds ==
    ({Field(Field(op.importedData, "trip"), "id")}
       \cup {Field(e, "id") : e \in Range(DocStops)}
       \cup {Field(e, "trip_stop_id") : e \in Range(DocActivities)})
    \ {Undef, Null}

\* the stops this import has created from the document stops with id x
CreatedFor(x) ==
    IF x \in {Undef, Null} THEN {}
    ELSE {op.created[j] : j \in {i \in 1..Len(op.created) :
                                    Field(DocStops[i], "id") = x /\ op.created[i] # Null}}

\* C6: at every point of an import, whatever the outcome of each stop
\* insert, every activity the import has inserted references a stop the same
\* import created under the new trip, namely one created from the document
\* stop the activity belonged to; an activity whose original stop id has no
\* created stop is not inserted; no inserted stop or activity carries an
\* identifier of the document's trip or stops as a foreign key.
C6_ImportedActivitiesReferenceNewStops ==
    ImportLocals =>
        /\ \A a \in NewActivities :
              /\ \E s \in NewStops : s.id = a.trip_stop_id /\ s.trip_id = op.createdTrip.id
              /\ \E j \in 1..Len(DocActivities) :
                    /\ Field(DocActivities[j], "name") = a.name
                    /\ a.trip_stop_id \in CreatedFor(Field(DocActivities[j], "trip_stop_id"))
              /\ a.trip_stop_id \notin DocIds
        /\ \A j \in 1..Len(DocActivities) :
              CreatedFor(Field(DocActivities[j], "trip_stop_id")) = {} =>
                  ~\E a \in NewActivities : a.name = Field(DocActivities[j], "name")
        /\ \A s \in NewStops : s.trip_id = op.createdTrip.id /\ s.trip_id \notin DocIds

\* an import has ended after one of two stop inserts failed: the activity of
\* the created stop is inserted, the other one is dropped
C6_Witness ==
    /\ ImportLocals
    /\ pc = "idle"
    /\ last.h = "import:done"
    /\ Len(op.created) = 2
    /\ \E i \in 1..2 : op.created[i] = Null
    /\ Len(op.newActivitiesData) = 2
    /\ Cardinality(NewActivities) = 1

\* the file is the export of the graph the trip view holds
FileIsExport == file = JsonStringify(ExportedData(trip, stops, AllActivities(stops)))

\* every insert of the import that has ended succeeded
AllInsertsSucceeded ==
    /\ op.createdTrip # Null
    /\ Len(op.created) = Len(op.newStopsData)
    /\ \A i \in 1..Len(op.created) : op.created[i] # Null
    /\ Cardinality(NewActivities) = Len(op.activitiesToInsert)

SameFields(cols, a, b) == \A c \in cols : a[c] = b[c]

\* C7: when the export of a trip graph has been imported and every insert
\* succeeded, the new graph is isomorphic to the exported one: as many
\* stops, the stop created from source stop i equal to it in every field
\* but id and trip_id and carrying as many activities, each equal to a
\* source activity of stop i in every field but id and trip_stop_id; the
\* trip equal in description, dates, cover image and budget, its name the
\* source name with the suffix.
C7_RoundTripIsomorphic ==
    (ImportLocals /\ pc = "idle" /\ last.h = "import:done" /\ FileIsExport
       /\ AllInsertsSucceeded) =>
        LET created == op.createdTrip
            ActivitiesOf(id) == {a \in dbActs : a.trip_stop_id = id}
        IN /\ Cardinality({s \in dbStops : s.trip_id = created.id}) = Len(stops)
           /\ Len(op.created) = Len(stops)
           /\ \A i \in 1..Len(stops) :
                 \E n \in dbStops :
                    /\ n.id = op.created[i]
                    /\ n.trip_id = created.id
                    /\ SameFields(StopCols \ {"id", "trip_id"}, stops[i], n)
                    /\ Cardinality(ActivitiesOf(n.id)) = Len(stops[i].activities.v)
                    /\ \A k \in 1..Len(stops[i].activities.v) :
                          \E a \in ActivitiesOf(n.id) :
                             SameFields(ActCols \ {"id", "trip_stop_id"},
                                        stops[i].activities.v[k], a)
           /\ \A i, j \in 1..Len(stops) : i # j => op.created[i] # op.created[j]
           /\ \A a \in NewActivities : a.trip_stop_id \in Range(op.created)
           /\ created \in dbTrips
           /\ SameFields({"description", "start_date", "end_date", "cover_image",
                          "total_budget"}, trip, created)
           /\ created.name = Str(trip.name.v \o " (Imported)")

\* the export of a trip with two stops and an activity on each has been
\* imported without a failed insert
C7_Witness ==
    /\ ImportLocals
    /\ pc = "idle"
    /\ last.h = "import:done"
    /\ FileIsExport
    /\ AllInsertsSucceeded
    /\ Len(stops) = 2
    /\ Cardinality(NewActivities) = 2

\* the chosen file holds no valid document
FileIsInvalid ==
    ~(JsonParse(file).ok /\ ValidateImportedData(JsonParse(file).data))

\* C8: a handleImport call of a signed-in user with a file that is not
\* parseable or whose document fails validation ends at once: it issues no
\* store write, leaves trips, stops and activities as they are, and raises
\* exactly one notification, an error.
C8_InvalidDocumentRejected ==
    [][(HandleImport /\ file # Undef /\ Truthy(user) /\ FileIsInvalid) =>
          /\ pc' = "idle"
          /\ writes' = 0
          /\ dbTrips' = dbTrips /\ dbStops' = dbStops /\ dbActs' = dbActs
          /\ nextId' = nextId
          /\ Len(toasts') = 1
          /\ toasts'[1].sev = "error"
      ]_vars

\* a document whose stops field is missing, all else being valid, has been
\* rejected
C8_Witness ==
    /\ last.h = "import:invalid"
    /\ pc = "idle"
    /\ file = Document(JsonValue(Obj([id |-> Id(1), name |-> Str("Goa")])),
                       Undef, Arr(<<>>))
    /\ toasts = <<Toast("error", "Invalid trip file format")>>
    /\ dbTrips = {SharedTrip}
    /\ writes = 0

\* the documents the specification describes as valid
DescribedValid(d) ==
    /\ d.k = "object"
    /\ Field(d, "trip").k = "object"
    /\ Field(Field(d, "trip"), "name").k = "string"
    /\ Field(Field(d, "trip"), "name").v # ""
    /\ Field(d, "stops").k = "array"
    /\ Field(d, "activities").k = "array"

\* C9: the validation a handleImport call applies to a parsed document
\* accepts it exactly when the document is an object whose trip is an object
\* with a non-empty string name and whose stops and activities are arrays;
\* nothing else is looked at, so a document with an activity of a stop that
\* is not among its stops is accepted.
C9_ValidateIsStructuralCheck ==
    [][(HandleImport /\ file # Undef /\ Truthy(user) /\ JsonParse(file).ok) =>
          /\ ValidateImportedData(JsonParse(file).data)
                <=> DescribedValid(JsonParse(file).data)
          /\ (op'.importedData # Null) <=> DescribedValid(JsonParse(file).data)
      ]_vars

\* a document with an activity whose stop is not among its stops has passed
\* validation
C9_Witness ==
    /\ ImportLocals
    /\ pc = "import:trip"
    /\ \E a \in Range(DocActivities) :
          /\ Truthy(Field(a, "trip_stop_id"))
          /\ \A e \in Range(DocStops) : Field(e, "id") # Field(a, "trip_stop_id")

\* C10: the trip prepareImportedTripForInsert returns for a document and
\* the importing user has that user's id, the document trip's name followed
\* by " (Imported)", is_public false, share_code null, no id and no
\* timestamps, and the document trip's description, dates, cover image and
\* budget; the trip row the import creates is not public and carries the
\* share code generated for that insert.
C10_PreparedTripIsPrivateCopy ==
    ImportLocals =>
        LET source == Field(op.importedData, "trip")
            prepared == op.newTripData
        IN /\ Get(prepared, "user_id") = Field(user, "id")
           /\ Get(prepared, "name") = Str(Field(source, "name").v \o " (Imported)")
           /\ Get(prepared, "is_public") = Bool(FALSE)
           /\ Get(prepared, "share_code") = Null
           /\ (DOMAIN prepared) \cap {"id", "created_at", "updated_at"} = {}
           /\ \A f \in {"description", "start_date", "end_date", "cover_image",
                        "total_budget"} :
                 Get(prepared, f) = Field(source, f)
           /\ op.createdTrip # Null =>
                 /\ op.createdTrip \in dbTrips \ op.preTrips
                 /\ op.createdTrip.id \notin {r.id : r \in op.preTrips}
                 /\ op.createdTrip.user_id = Field(user, "id")
                 /\ op.createdTrip.is_public = Bool(FALSE)
                 /\ op.createdTrip.share_code = Str(op.code)

\* a public trip with a share code has been imported: the created trip is
\* private and has another share code
C10_Witness ==
    /\ ImportLocals
    /\ op.createdTrip # Null
    /\ Field(Field(op.importedData, "trip"), "is_public") = Bool(TRUE)
    /\ Field(Field(op.importedData, "trip"), "share_code") = Str("c1")
    /\ op.createdTrip.share_code = Str("r1")
    /\ op.createdTrip.is_public = Bool(FALSE)

\* the document stop ids for which the import has created a stop
MappedIds == {x \in DocIds : CreatedFor(x) # {}}

\* C11: an import issues a stop insert only when its trip insert has
\* succeeded, and stops are created only by such a request; an import whose
\* trip insert fails ends with no stop and no activity created; the
\* activities insert is issued, and activities are created, only when every
\* stop insert has been attempted and the map holds an entry for exactly the
\* document stops that were created.
C11_TwoPhaseOrder ==
    [][/\ (pc' = "import:stop") =>
             (op'.createdTrip # Null /\ op'.createdTrip \in dbTrips')
       /\ (dbStops' # dbStops) =>
             (pc = "import:stop" /\ op.createdTrip \in dbTrips)
       /\ (pc = "import:trip" /\ op'.createdTrip = Null) =>
             (/\ pc' = "idle"
              /\ dbTrips' = op.preTrips
              /\ dbStops' = op.preStops
              /\ dbActs' = op.preActs
              /\ writes' = 1)
       /\ (pc' = "import:activities") =>
             (/\ Len(op'.created) = Len(op'.newStopsData)
              /\ DOMAIN op'.stopIdMap = MappedIds'
              /\ \A x \in MappedIds' : op'.stopIdMap[x] \in CreatedFor(x)')
       /\ (dbActs' # dbActs) =>
             (pc = "import:activities" /\ Len(op.created) = Len(op.newStopsData))
      ]_vars

\* the activities insert is pending after two stop inserts, one of which
\* failed
C11_Witness ==
    /\ ImportLocals
    /\ pc = "import:activities"
    /\ Len(op.created) = 2
    /\ \E i \in 1..2 : op.created[i] = Null

\* the activities the store holds for the stops of the shown trip
TripActivities ==
    {a \in dbActs : \E r \in TripStopsIn(dbStops, trip) : a.trip_stop_id = r.id}

\* C12: the document handleExport has written has exactly the top-level
\* fields version, trip, stops, activities and exportedAt, with version
\* "1.0"; no element of stops has a nested activities list; every activity
\* of the trip is exactly one element of activities, with its trip_stop_id.
C12_ExportedDocumentIsFlat ==
    (last.h = "export") =>
        LET document == file.v.v
        IN /\ DOMAIN document = {"version", "trip", "stops", "activities", "exportedAt"}
           /\ document.version = Str("1.0")
           /\ \A e \in Range(document.stops.v) : "activities" \notin DOMAIN e.v
           /\ Len(document.activities.v) = Cardinality(TripActivities)
           /\ \A a \in TripActivities :
                 \E i \in 1..Len(document.activities.v) : document.activities.v[i] = Obj(a)

-----------------------------------------------------------------------------
\* Properties of the budget screen, the summary panel and the conflict alerts

\* the number a cost column stands for
Cost(v) == IF v = Null THEN 0 ELSE v.v

\* the labels of the trip screens that contain "food" or "dining" in any
\* mix of upper and lower case
MealLabels == {Food, FineDining, Seafood}

ScreenActivities == AllActivities(stops)

\* the costs of the activities that are meals (meal = TRUE) or are not
CostsOf(meal) ==
    SumSeq([i \in 1..Len(ScreenActivities) |->
               IF (ScreenActivities[i].category \in MealLabels) = meal
               THEN Cost(ScreenActivities[i].estimated_cost)
               ELSE 0])

\* C13: the cost breakdown of the budget screen has transport equal to the
\* sum of transport_cost over the stops and accommodation equal to the sum
\* of accommodation_cost over the stops; the cost of each activity is
\* counted in one bucket only: in meals when its category contains "food"
\* or "dining" in any case, in activities otherwise, also when it has no
\* category; a missing cost counts as 0.
C13_CostBreakdown ==
    (last.h = "BudgetScreen") =>
        LET costs == last.shown.costs
        IN /\ costs.transport = SumSeq([i \in 1..Len(stops) |-> Cost(stops[i].transport_cost)])
           /\ costs.accommodation =
                 SumSeq([i \in 1..Len(stops) |-> Cost(stops[i].accommodation_cost)])
           /\ costs.activities = CostsOf(FALSE)
           /\ (CostsOf(TRUE) # 0) => (costs.meals = CostsOf(TRUE))

C13_Witness ==
    /\ last.h = "BudgetScreen"
    /\ \E i \in 1..Len(stops) : stops[i].transport_cost = Null
    /\ \E i, j, k \in 1..Len(ScreenActivities) :
          /\ ScreenActivities[i].category = FineDining
          /\ ScreenActivities[j].category = Null /\ ScreenActivities[j].estimated_cost = Num(100)
          /\ ScreenActivities[k].category = Seafood /\ ScreenActivities[k].estimated_cost = Null
    /\ last.shown.costs.meals = 500
    /\ last.shown.costs.activities >= 100

\* C14: when the meals accumulated from the food and dining activities are
\* exactly zero (there is no such activity, or each of them costs 0) the
\* meals of the breakdown are the number of stops times 1500; when they are
\* positive they are returned as accumulated and no estimate is added.
C14_MealsFallback ==
    (last.h = "BudgetScreen") =>
        last.shown.costs.meals =
            IF CostsOf(TRUE) = 0 THEN Len(stops) * 1500 ELSE CostsOf(TRUE)

C14_Witness ==
    /\ last.h = "BudgetScreen"
    /\ Len(stops) = 2
    /\ \E i \in 1..Len(ScreenActivities) :
          ScreenActivities[i].category = Food /\ ScreenActivities[i].estimated_cost = Num(0)
    /\ CostsOf(TRUE) = 0
    /\ last.shown.costs.meals = 3000

\* the total the claims expect for the stops of the screen
ExpectedTotal ==
    SumSeq([i \in 1..Len(stops) |->
               Cost(stops[i].transport_cost) + Cost(stops[i].accommodation_cost)])
    + CostsOf(FALSE)
    + (IF CostsOf(TRUE) = 0 THEN Len(stops) * 1500 ELSE CostsOf(TRUE))

\* the one stop with transport 1000, accommodation 2000 and one
\* "Sightseeing" activity that costs 500
IsExampleTrip ==
    /\ Len(stops) = 1
    /\ stops[1].transport_cost = Num(1000)
    /\ stops[1].accommodation_cost = Num(2000)
    /\ Len(stops[1].activities.v) = 1
    /\ stops[1].activities.v[1].category = Sightseeing
    /\ stops[1].activities.v[1].estimated_cost = Num(500)

\* C15: for costs that are non-negative integers the estimated total is
\* transport + accommodation + activities + meals of the breakdown and is
\* not negative; for one stop with transport 1000, accommodation 2000 and
\* one "Sightseeing" activity of cost 500 the breakdown is 1000, 2000, 500,
\* 1500 and the total 5000; the remaining budget is total_budget minus the
\* total, and the trip is over budget exactly when the remaining budget is
\* negative.
C15_TotalAndRemaining ==
    (last.h = "BudgetScreen") =>
        LET shown == last.shown
        IN /\ shown.totalEstimated = shown.costs.transport + shown.costs.accommodation
                                     + shown.costs.activities + shown.costs.meals
           /\ shown.totalEstimated = ExpectedTotal
           /\ shown.totalEstimated >= 0
           /\ IsExampleTrip =>
                 /\ shown.costs = [transport |-> 1000, accommodation |-> 2000,
                                   activities |-> 500, meals |-> 1500]
                 /\ shown.totalEstimated = 5000
           /\ shown.remaining = Cost(trip.total_budget) - shown.totalEstimated
           /\ shown.isOverBudget = (Cost(trip.total_budget) < ExpectedTotal)

C15_Witness ==
    /\ last.h = "BudgetScreen"
    /\ IsExampleTrip
    /\ trip.total_budget = Num(1000)
    /\ last.shown.totalEstimated = 5000
    /\ last.shown.remaining = -4000
    /\ last.shown.isOverBudget

\* computeDurationDays: (end - start in whole days) + 1 when the trip has
\* both dates, 0 otherwise
DurationDays ==
    IF trip.start_date # Null /\ trip.end_date # Null
    THEN ParseISO(trip.end_date) - ParseISO(trip.start_date) + 1
    ELSE 0

\* C16: the average daily cost is the estimated total divided by
\* max(1, duration in days), where the duration is (end - start in whole
\* days) + 1 when the trip has both dates and 0 otherwise: a trip from day
\* D to day D+1 has its total divided by 2, a trip without dates by 1.
C16_AverageDailyCost ==
    /\ (last.h = "TripSummaryPanel") => (last.shown.tripDuration = DurationDays)
    /\ (last.h = "BudgetScreen") =>
          (last.shown.averagePerDay = FloatDiv(ExpectedTotal, Max(1, DurationDays)))

PaceLabels == {"Planning", "Relaxed", "Balanced", "Packed"}

\* n / days < c and n / days > c for integers n, days and c, days not 0
RatioBelow(n, days, c) == IF days > 0 THEN n < c * days ELSE n > c * days

RatioAbove(n, days, c) == IF days > 0 THEN n > c * days ELSE n < c * days

\* C17: the pace is Planning when the trip does not have both dates or has
\* no stop; otherwise, with r the number of activities of all stops divided
\* by the duration in days, it is Relaxed when r < 2, Balanced when
\* 2 <= r <= 4 and Packed when r > 4; it is always one of the four labels.
C17_Pace ==
    (last.h = "TripSummaryPanel") =>
        LET pace == last.shown.pace
            n == Len(ScreenActivities)
        IN /\ pace \in PaceLabels
           /\ (trip.start_date = Null \/ trip.end_date = Null \/ Len(stops) = 0) =>
                 (pace = "Planning")
           /\ (trip.start_date # Null /\ trip.end_date # Null /\ Len(stops) > 0
               /\ DurationDays # 0) =>
                 /\ RatioBelow(n, DurationDays, 2) => (pace = "Relaxed")
                 /\ (~RatioBelow(n, DurationDays, 2) /\ ~RatioAbove(n, DurationDays, 4)) =>
                       (pace = "Balanced")
                 /\ RatioAbove(n, DurationDays, 4) => (pace = "Packed")

C17_Witness ==
    /\ last.h = "TripSummaryPanel"
    /\ DurationDays = 3
    /\ Len(ScreenActivities) = 9
    /\ last.shown.pace = "Balanced"

\* the alerts the passes of the conflict alerts have pushed
ShownAlerts == last.shown.alerts

\* how often an alert is in the list
Count(alert) == Cardinality({k \in 1..Len(ShownAlerts) : ShownAlerts[k] = alert})

HasBothDates(r) == r.start_date # Null /\ r.end_date # Null

\* the scheduled date of the j-th activity of the i-th stop lies outside
\* the inclusive interval from the stop's start date to its end date
ScheduledOutside(i, j) ==
    LET date == stops[i].activities.v[j].scheduled_date
    IN /\ HasBothDates(stops[i])
       /\ date # Null
       /\ ~(/\ ParseISO(stops[i].start_date) <= ParseISO(date)
            /\ ParseISO(date) <= ParseISO(stops[i].end_date))

DateAlert(i, j) ==
    [type |-> "date", severity |-> "error",
     message |-> <<stops[i].activities.v[j].name, stops[i].city_name>>]

\* C18: the conflict alerts hold exactly one "date" alert of severity
\* "error" for each stop and activity of it where the stop has both dates,
\* the activity has a scheduled date and that date lies outside the
\* inclusive interval from the stop's start date to its end date, and no
\* other "date" alert; an activity scheduled on the start date or on the
\* end date of its stop gets none.
C18_DateAlerts ==
    (last.h = "ConflictAlerts") =>
        /\ \A i \in 1..Len(stops) : \A j \in 1..Len(stops[i].activities.v) :
              Count(DateAlert(i, j)) = IF ScheduledOutside(i, j) THEN 1 ELSE 0
        /\ \A k \in 1..Len(ShownAlerts) :
              (ShownAlerts[k].type = "date") =>
                 \E i \in 1..Len(stops) : \E j \in 1..Len(stops[i].activities.v) :
                    ShownAlerts[k] = DateAlert(i, j)

BudgetAlert(i) ==
    [type |-> "budget", severity |-> "warning", message |-> <<stops[i].city_name>>]

\* (end - start in whole days) + 1 of a stop with both dates
StopDays(i) == ParseISO(stops[i].end_date) - ParseISO(stops[i].start_date) + 1

\* the cost of a stop: transport, accommodation and its activities
StopCost(i) ==
    Cost(stops[i].transport_cost) + Cost(stops[i].accommodation_cost)
    + SumSeq([j \in 1..Len(stops[i].activities.v) |->
                 Cost(stops[i].activities.v[j].estimated_cost)])

\* the budget pass runs: the trip has both dates and a positive budget
HasDatesAndBudget == HasBothDates(trip) /\ Cost(trip.total_budget) > 0

\* cost / stopDays > 1.2 * total_budget / tripDays, for positive day counts
ExceedsDailyBudget(i) ==
    5 * StopCost(i) * DurationDays > 6 * trip.total_budget.v * StopDays(i)

\* C19: the budget pass runs only when the trip has both dates and
\* total_budget > 0; the conflict alerts then hold one "budget" alert of
\* severity "warning" for exactly the stops that have both dates and whose
\* cost per day of the stop is strictly greater than 1.2 times the trip's
\* budget per day of the trip; a stop that is exactly at 1.2 times the
\* daily budget gets no alert.
C19_BudgetAlerts ==
    (last.h = "ConflictAlerts") =>
        \A i \in 1..Len(stops) :
           /\ (~HasDatesAndBudget \/ ~HasBothDates(stops[i])) => (Count(BudgetAlert(i)) = 0)
           /\ (HasDatesAndBudget /\ HasBothDates(stops[i])
               /\ DurationDays > 0 /\ StopDays(i) > 0) =>
                 (Count(BudgetAlert(i)) = IF ExceedsDailyBudget(i) THEN 1 ELSE 0)

ActivitiesAlert(i) ==
    [type |-> "activities", severity |-> "warning", message |-> <<stops[i].city_name>>]

\* C20: the conflict alerts hold one "activities" alert of severity
\* "warning" for exactly the stops that have both dates, at least one
\* activity and more than 5 activities per day of the stop, the days
\* counted from the start date to the end date inclusive; the dates and
\* the budget of the trip do not matter.
C20_DensityAlerts ==
    (last.h = "ConflictAlerts") =>
        \A i \in 1..Len(stops) :
           LET n == Len(stops[i].activities.v)
           IN /\ (~HasBothDates(stops[i]) \/ n = 0) => (Count(ActivitiesAlert(i)) = 0)
              /\ (HasBothDates(stops[i]) /\ n > 0 /\ StopDays(i) # 0) =>
                    (Count(ActivitiesAlert(i)) = IF RatioAbove(n, StopDays(i), 5) THEN 1 ELSE 0)

C20_Witness ==
    /\ last.h = "ConflictAlerts"
    /\ trip.start_date = Null
    /\ trip.total_budget = Num(0)
    /\ Len(stops) = 2
    /\ HasBothDates(stops[1]) /\ StopDays(1) = 1 /\ Len(stops[1].activities.v) = 6
    /\ HasBothDates(stops[2]) /\ StopDays(2) = 1 /\ Len(stops[2].activities.v) = 5
    /\ ShownAlerts = <<ActivitiesAlert(1)>>

\* the place of a pass in the order of the passes
PassRank(type) == CASE type = "budget" -> 1 [] type = "activities" -> 2 [] type = "date" -> 3

\* the position of the stop an alert names: the city name is the last name
\* of the message
AlertStop(alert) ==
    CHOOSE i \in 1..Len(stops) : stops[i].city_name = alert.message[Len(alert.message)]

\* the position of the activity a date alert names within its stop
AlertActivity(alert) ==
    CHOOSE j \in 1..Len(stops[AlertStop(alert)].activities.v) :
        stops[AlertStop(alert)].activities.v[j].name = alert.message[1]

\* C21: the alert list is the three passes one after the other: every
\* "budget" alert comes before every "activities" alert, which comes before
\* every "date" alert; within a pass the alerts follow the order of the
\* stops and, in the date pass, of the activities within a stop; every
\* "date" alert has severity "error" and every "budget" or "activities"
\* alert has severity "warning".
C21_AlertOrder ==
    (last.h = "ConflictAlerts") =>
        /\ \A k \in 1..Len(ShownAlerts) :
              /\ ShownAlerts[k].type \in {"budget", "activities", "date"}
              /\ ShownAlerts[k].severity =
                    IF ShownAlerts[k].type = "date" THEN "error" ELSE "warning"
        /\ \A k, l \in 1..Len(ShownAlerts) :
              (k < l) =>
                 /\ PassRank(ShownAlerts[k].type) <= PassRank(ShownAlerts[l].type)
                 /\ (ShownAlerts[k].type = ShownAlerts[l].type) =>
                       /\ AlertStop(ShownAlerts[k]) <= AlertStop(ShownAlerts[l])
                       /\ (/\ ShownAlerts[k].type = "date"
                           /\ AlertStop(ShownAlerts[k]) = AlertStop(ShownAlerts[l])) =>
                             (AlertActivity(ShownAlerts[k]) < AlertActivity(ShownAlerts[l]))

C21_Witness ==
    /\ last.h = "ConflictAlerts"
    /\ Len(stops) = 2
    /\ Len(ShownAlerts) = 5
    /\ ShownAlerts[1].type = "budget" /\ ShownAlerts[2].type = "budget"
    /\ AlertStop(ShownAlerts[1]) = 1 /\ AlertStop(ShownAlerts[2]) = 2
    /\ ShownAlerts[3].type = "activities"
    /\ ShownAlerts[4].type = "date" /\ ShownAlerts[5].type = "date"
    /\ AlertStop(ShownAlerts[4]) = AlertStop(ShownAlerts[5])

-----------------------------------------------------------------------------
\* the step ends an import in which an insert was rejected: the insert the
\* step completes, or an earlier stop insert of the same import
ImportEndsWithRejection ==
    /\ pc \in {"import:trip", "import:stop", "import:activities"}
    /\ pc' = "idle"
    /\ \/ failures' > failures
       \/ Null \in Range(op'.created)

\* C26: every insert of an import that the store rejects (the trip insert, a
\* stop insert or the activities insert) is surfaced as a failure
\* notification: an import with a rejected insert ends with the toast
\* "Failed to import trip" and never with "Trip imported successfully!".
C26_RejectedInsertIsSurfaced ==
    [][ImportEndsWithRejection =>
          toasts' = <<Toast("error", "Failed to import trip")>>]_vars

-----------------------------------------------------------------------------
\* TripBuilder.handleAddActivity and TripBuilder.handleDeleteActivity

MaxActivities == 1

\* the activity the "Add Activity" button of a stop passes
NewActivityForm == [name |-> Str("New Activity")]

\* stops.map(s => s.id === stopId
\*                  ? {...s, activities: [...(s.activities || []), data]} : s)
WithActivity(s, stopId, data) ==
    [i \in 1..Len(s) |->
        IF s[i].id = stopId
        THEN Put(s[i], "activities", Arr(Append(s[i].activities.v, data)))
        ELSE s[i]]

\* stops.map(s => s.id === stopId
\*     ? {...s, activities: s.activities?.filter(a => a.id !== activityId)} : s)
WithoutActivity(s, stopId, activityId) ==
    [i \in 1..Len(s) |->
        IF s[i].id = stopId
        THEN Put(s[i], "activities",
                 Arr(SelectSeq(s[i].activities.v, LAMBDA a : a.id # activityId)))
        ELSE s[i]]

HandleAddActivity(stopId, activity, ok) ==
    /\ pc = "idle"
    /\ screen = "builder"
    /\ prev' = NoCall
    /\ last' = Call("addActivity")
    /\ LET cur == FindIndex(stops, stopId)
       IN IF cur = -1
          THEN /\ writes' = 0
               /\ toasts' = <<>>
               /\ UNCHANGED <<dbActs, nextId, stops, failures>>
          ELSE LET stop == stops[cur + 1]
                   data == InsertRow(ActCols,
                             [trip_stop_id |-> stopId,
                              name |-> OrElse(Get(activity, "name"), Str("New Activity")),
                              description |-> Get(activity, "description"),
                              estimated_cost |-> OrElse(Get(activity, "estimated_cost"), Num(0)),
                              duration_hours |-> OrElse(Get(activity, "duration_hours"), Num(1)),
                              order_index |-> Num(Len(stop.activities.v)),
                              category |-> Get(activity, "category")],
                             FreshId)
               IN /\ Len(stop.activities.v) < MaxActivities
                  /\ nextId < MaxIds
                  /\ writes' = 1
                  /\ IF ok
                     THEN /\ dbActs' = dbActs \cup {data}
                          /\ nextId' = nextId + 1
                          /\ stops' = WithActivity(stops, stopId, data)
                          /\ toasts' = <<Toast("success", "Activity added!")>>
                          /\ UNCHANGED failures
                     ELSE /\ failures < MaxFailures
                          /\ failures' = failures + 1
                          /\ toasts' = <<Toast("error", "Failed to add activity")>>
                          /\ UNCHANGED <<dbActs, nextId, stops>>
    /\ UNCHANGED <<intervalSorts, dbTrips, dbStops, screen, trip, user, pc, op, file>>

HandleDeleteActivity(stopId, activityId, ok) ==
    /\ pc = "idle"
    /\ screen = "builder"
    /\ prev' = NoCall
    /\ last' = Call("deleteActivity")
    /\ writes' = 1
    /\ IF ok
       THEN /\ dbActs' = DeleteRow(dbActs, activityId)
            /\ stops' = WithoutActivity(stops, stopId, activityId)
            /\ toasts' = <<Toast("success", "Activity deleted")>>
            /\ UNCHANGED failures
       ELSE /\ failures < MaxFailures
            /\ failures' = failures + 1
            /\ toasts' = <<Toast("error", "Failed to delete activity")>>
            /\ UNCHANGED <<dbActs, stops>>
    /\ UNCHANGED <<intervalSorts, dbTrips, dbStops, nextId, screen, trip, user, pc, op, file>>

\* the activities the builder shows, each with the stop that shows it
ShownActivityIds ==
    UNION {{<<stops[i].id, stops[i].activities.v[j].id>> :
               j \in 1..Len(stops[i].activities.v)} : i \in 1..Len(stops)}

\* the trip builder with its stop and activity handlers over a store whose
\* requests may fail
NextBuilder ==
    \/ \E city \in CityNames \cup {""}, ok \in BOOLEAN : HandleAddStop(city, ok)
    \/ \E id \in Range(Ids(stops)), ok \in BOOLEAN : HandleDeleteStop(id, ok)
    \/ \E id \in Range(Ids(stops)) \cup {NoSuchStop}, ok \in BOOLEAN :
          HandleAddActivity(id, NewActivityForm, ok)
    \/ \E p \in ShownActivityIds, ok \in BOOLEAN : HandleDeleteActivity(p[1], p[2], ok)
    \/ \E id \in Range(Ids(stops)) \cup {NoSuchStop}, dir \in {"up", "down"} :
          HandleReorderStop(id, dir)
    \/ \E w \in {1, 2}, ok \in BOOLEAN : ReorderUpdateDone(w, ok)
    \/ ReorderFinish
    \/ CloseBuilder
    \/ \E ok \in BOOLEAN : OpenBuilder(ok)

SpecBuilder == Init /\ [][NextBuilder]_vars

\* a request of a builder handler fails in the step: the failed insert or
\* delete of a stop or an activity, or the end of a reorder with a failed
\* update
BuilderRequestFailed ==
    \/ pc = "idle" /\ pc' = "idle" /\ failures' > failures
                   /\ last'.h \in {"add", "delete", "addActivity", "deleteActivity"}
    \/ pc = "reorder" /\ pc' = "idle" /\ op.errors # {}

\* the list the handler found when it was called
ListBefore == IF pc = "reorder" THEN op.preMem ELSE stops

-----------------------------------------------------------------------------
\* C30: the estimated total the trip summary panel shows equals the
\* estimated total of the budget screen (transport + accommodation +
\* activities + meals) for every trip and every list of stops with
\* activities, also with food or dining activities and with a day count that
\* differs from the stop count.
C30_PanelTotalIsBudgetTotal ==
    (last.h = "TripSummaryPanel") => (last.shown.estimatedBudget = ExpectedTotal)

-----------------------------------------------------------------------------
\* Sharing: TripView.handleShare, the share parameter of the page URL,
\* SharedTripView.loadSharedTrip and handleCopyTrip, MyTrips.handleDelete
\* and the delete of the local data layer

MaxCopies == 1

\* `${window.location.origin}?share=${shareCode}`
ShareUrl(shareCode) ==
    [origin |-> "https://app", search |-> <<<<"share", TemplateString(shareCode)>>>>]

\* new URLSearchParams(window.location.search).get(name): the value of the
\* first parameter of that name, null when there is none
UrlSearchParamsGet(url, name) ==
    LET hits == SelectSeq(url.search, LAMBDA p : p[1] = name)
    IN IF Len(hits) = 0 THEN Null ELSE Str(hits[1][2])

\* update({ share_code, is_public: true }).eq("id", id)
UpdateShare(table, id, shareCode) ==
    {IF r.id = id THEN [r EXCEPT !.share_code = shareCode, !.is_public = Bool(TRUE)]
     ELSE r : r \in table}

\* handleShare: the update is awaited and its result is not read; the link
\* is copied through the clipboard or through the textarea fallback
HandleShare(first, second, ok) ==
    /\ pc = "idle"
    /\ screen = "trip-view"
    /\ LET generate == ~Truthy(trip.share_code)
           shareCode == OrElse(trip.share_code, Str(second))
       IN /\ (generate /\ ~ok) => failures < MaxFailures
          /\ dbTrips' = IF generate /\ ok
                        THEN UpdateShare(dbTrips, trip.id, Str(first))
                        ELSE dbTrips
          /\ failures' = IF generate /\ ~ok THEN failures + 1 ELSE failures
          /\ writes' = IF generate THEN 1 ELSE 0
          /\ last' = [h |-> "share", id |-> trip.id, url |-> ShareUrl(shareCode)]
    /\ toasts' = <<Toast("success", "Share link copied!")>>
    /\ prev' = NoCall
    /\ UNCHANGED <<intervalSorts, dbStops, dbActs, nextId, screen, trip, user, stops,
                   pc, op, file>>

\* select("*").eq("share_code", shareCode).eq("is_public", true).single():
\* the row when the request succeeds and exactly one row matches
SingleSharedTrip(shareCode, ok) ==
    LET rows == {r \in dbTrips : r.share_code = shareCode /\ r.is_public = Bool(TRUE)}
    IN IF ok /\ Cardinality(rows) = 1 THEN CHOOSE r \in rows : TRUE ELSE Null

\* the users a browser that opens a link may be signed in as, null for none
Visitors == {Null, SignedIn(U1), SignedIn(U2)}

\* a code no trip carries
NoSuchCode == "zz"

\* a browser opens a URL with a share parameter: the page effect shows the
\* shared trip view, whose mount effect runs loadSharedTrip; without a trip
\* the view is the "not found" view
OpenSharedLink(url, visitor, ok) ==
    /\ pc = "idle"
    /\ LET shareCode == UrlSearchParamsGet(url, "share")
           tripData == SingleSharedTrip(shareCode, ok)
       IN /\ Truthy(shareCode)
          /\ ~ok => failures < MaxFailures
          /\ failures' = IF ok THEN failures ELSE failures + 1
          /\ screen' = "shared-trip"
          /\ user' = visitor
          /\ trip' = tripData
          /\ IF tripData = Null
             THEN stops' = <<>>
             ELSE \E s \in LoadedStops(tripData) : stops' = s
          /\ last' = [h |-> "loadSharedTrip", shareCode |-> shareCode, ok |-> ok,
                      produced |-> IF last.h = "share" /\ last.url = url
                                   THEN last.id ELSE Null]
    /\ toasts' = <<>>
    /\ writes' = 0
    /\ prev' = NoCall
    /\ UNCHANGED <<intervalSorts, dbTrips, dbStops, dbActs, nextId, pc, op, file>>

\* the trip insert of handleCopyTrip
CopiedTrip(t, userId, shareCode) ==
    [user_id |-> userId, name |-> Str(TemplateString(t.name) \o " (Copy)"),
     description |-> t.description, start_date |-> t.start_date,
     end_date |-> t.end_date, cover_image |-> t.cover_image,
     is_public |-> Bool(FALSE), share_code |-> Str(shareCode),
     total_budget |-> t.total_budget]

\* the stop insert of handleCopyTrip
CopiedStop(stop, newTripId) ==
    [trip_id |-> newTripId, city_id |-> stop.city_id, city_name |-> stop.city_name,
     country |-> stop.country, start_date |-> stop.start_date,
     end_date |-> stop.end_date, order_index |-> stop.order_index,
     transport_cost |-> stop.transport_cost,
     accommodation_cost |-> stop.accommodation_cost, notes |-> stop.notes]

\* variant of CopiedActivity that keeps the stop of the source activity
CopiedActivityOfSourceStop(activity, newStopId) ==
    Rest(activity, {"id"})

\* an element of activitiesToInsert
CopiedActivity(activity, newStopId) ==
    [trip_stop_id |-> newStopId, activity_id |-> activity.activity_id,
     name |-> activity.name, description |-> activity.description,
     scheduled_date |-> activity.scheduled_date,
     scheduled_time |-> activity.scheduled_time,
     duration_hours |-> activity.duration_hours,
     estimated_cost |-> activity.estimated_cost,
     order_index |-> activity.order_index, category |-> activity.category,
     is_custom |-> activity.is_custom]

\* the loop over the stops from stop i on; acc holds the two tables, the
\* last identifier the store has handed out and, for every stop so far, the
\* id of its copy (null after `if (stopError) continue`)
RECURSIVE CopyStops(_, _, _, _, _, _)
CopyStops(s, i, newTripId, stopOk, actsOk, acc) ==
    IF i > Len(s) THEN acc
    ELSE IF ~stopOk[i]
    THEN CopyStops(s, i + 1, newTripId, stopOk, actsOk,
                   [acc EXCEPT !.made = Append(@, Null)])
    ELSE LET newStop == InsertRow(StopCols, CopiedStop(s[i], newTripId), Id(acc.next + 1))
             as == s[i].activities.v
             rows == [j \in 1..Len(as) |->
                         InsertRow(ActCols, CopiedActivity(as[j], newStop.id),
                                   Id(acc.next + 1 + j))]
             inserted == Len(as) > 0 /\ actsOk[i]
         IN CopyStops(s, i + 1, newTripId, stopOk, actsOk,
                      [stops |-> acc.stops \cup {newStop},
                       acts |-> IF inserted THEN acc.acts \cup Range(rows) ELSE acc.acts,
                       next |-> IF inserted THEN acc.next + 1 + Len(rows) ELSE acc.next + 1,
                       made |-> Append(acc.made, newStop.id)])

\* the inserts the handler issues and the store rejects
CopyRejections(s, tripOk, stopOk, actsOk) ==
    (IF tripOk THEN 0 ELSE 1)
    + Cardinality({i \in 1..Len(s) : ~stopOk[i]})
    + Cardinality({i \in 1..Len(s) : ~actsOk[i]})

\* the outcomes of the requests the handler issues: no stop is inserted
\* after a rejected trip insert, no activities after a rejected stop insert
\* or for a stop without activities
CopyOutcomes(s) ==
    {o \in [tripOk : BOOLEAN, stopOk : [1..Len(s) -> BOOLEAN],
            actsOk : [1..Len(s) -> BOOLEAN], reloadOk : BOOLEAN] :
        /\ ~o.tripOk => (\A i \in 1..Len(s) : o.stopOk[i]) /\ o.reloadOk
        /\ \A i \in 1..Len(s) :
              (~o.tripOk \/ ~o.stopOk[i] \/ Len(s[i].activities.v) = 0) => o.actsOk[i]}

\* handleCopyTrip; after the copy onCopyTrip shows the reloaded copy in the
\* trip view
HandleCopyTrip(shareCode, o) ==
    /\ pc = "idle"
    /\ screen = "shared-trip"
    /\ prev' = NoCall
    /\ IF ~Truthy(user) \/ trip = Null
       THEN /\ toasts' = <<Toast("error", "Please sign in to copy this trip")>>
            /\ writes' = 0
            /\ last' = Call("copy:signin")
            /\ UNCHANGED <<dbTrips, dbStops, dbActs, nextId, screen, trip, stops, pc,
                           failures>>
       ELSE /\ nextId < SrcIds + MaxCopies
            /\ failures + CopyRejections(stops, o.tripOk, o.stopOk, o.actsOk)
                 + (IF o.reloadOk THEN 0 ELSE 1) <= MaxFailures
            /\ failures' = failures + CopyRejections(stops, o.tripOk, o.stopOk, o.actsOk)
                             + (IF o.reloadOk THEN 0 ELSE 1)
            /\ IF ~o.tripOk
               THEN /\ toasts' = <<Toast("error", "Failed to copy trip")>>
                    /\ writes' = 1
                    /\ last' = Call("copy:fail")
                    /\ UNCHANGED <<dbTrips, dbStops, dbActs, nextId, screen, trip,
                                   stops, pc>>
               ELSE LET newTrip == InsertRow(TripCols,
                                             CopiedTrip(trip, Field(user, "id"), shareCode),
                                             FreshId)
                        done == CopyStops(stops, 1, newTrip.id, o.stopOk, o.actsOk,
                                          [stops |-> dbStops, acts |-> dbActs,
                                           next |-> nextId + 1, made |-> <<>>])
                    IN /\ dbTrips' = dbTrips \cup {newTrip}
                       /\ dbStops' = done.stops
                       /\ dbActs' = done.acts
                       /\ nextId' = done.next
                       /\ writes' = done.next - nextId
                       /\ toasts' = <<Toast("success", "Trip copied to your account!")>>
                       /\ last' = [h |-> "copy", shareCode |-> shareCode,
                                   source |-> trip, sourceStops |-> stops,
                                   newTrip |-> newTrip, made |-> done.made,
                                   actsOk |-> o.actsOk,
                                   before |-> [trips |-> dbTrips, stops |-> dbStops,
                                               acts |-> dbActs]]
                       /\ IF o.reloadOk
                          THEN /\ screen' = "trip-view"
                               /\ trip' = newTrip
                               /\ stops' = <<>>
                               /\ pc' = "load"
                          ELSE UNCHANGED <<screen, trip, stops, pc>>
    /\ UNCHANGED <<intervalSorts, user, op, file>>

\* TripView.loadTripData, run by the mount effect of the trip view
LoadTripData ==
    /\ pc = "load"
    /\ pc' = "idle"
    /\ \E s \in LoadedStops(trip) : stops' = s
    /\ UNCHANGED <<intervalSorts, dbTrips, dbStops, dbActs, nextId, screen, trip, user,
                   op, toasts, writes, last, prev, failures, file>>

\* navigation to the list of the user's trips
OpenMyTrips ==
    /\ pc = "idle"
    /\ screen # "my-trips"
    /\ Truthy(user)
    /\ screen' = "my-trips"
    /\ trip' = Null
    /\ stops' = <<>>
    /\ toasts' = <<>>
    /\ writes' = 0
    /\ last' = Call("my-trips")
    /\ prev' = NoCall
    /\ UNCHANGED <<intervalSorts, dbTrips, dbStops, dbActs, nextId, user, pc, op,
                   failures, file>>

\* loadTrips: select("*").eq("user_id", user.id)
TripsOf(u) == {r \in dbTrips : r.user_id = Field(u, "id")}

\* onSelectTrip: the trip view of one of the listed trips
HandleTripSelect(t) ==
    /\ pc = "idle"
    /\ screen = "my-trips"
    /\ t \in TripsOf(user)
    /\ screen' = "trip-view"
    /\ trip' = t
    /\ stops' = <<>>
    /\ pc' = "load"
    /\ toasts' = <<>>
    /\ writes' = 0
    /\ last' = Call("select")
    /\ prev' = NoCall
    /\ UNCHANGED <<intervalSorts, dbTrips, dbStops, dbActs, nextId, user, op,
                   failures, file>>

\* the rows that go with the trip row when the store deletes it. The handler
\* deletes the trip row and nothing else; whether the store then removes the
\* rows that reference the trip is decided by its schema, which the source
\* does not hold: both outcomes are kept
DeleteTripRows(tripId, cascades) ==
    LET gone == IF cascades THEN {s \in dbStops : s.trip_id = tripId} ELSE {}
    IN [trips |-> DeleteRow(dbTrips, tripId),
        stops |-> dbStops \ gone,
        acts |-> {a \in dbActs : a.trip_stop_id \notin {s.id : s \in gone}}]

\* MyTrips.handleDelete
HandleDelete(tripId, ok, cascades) ==
    /\ pc = "idle"
    /\ screen = "my-trips"
    /\ writes' = 1
    /\ prev' = NoCall
    /\ IF ok
       THEN LET after == DeleteTripRows(tripId, cascades)
            IN /\ dbTrips' = after.trips
               /\ dbStops' = after.stops
               /\ dbActs' = after.acts
               /\ toasts' = <<Toast("success", "Trip deleted")>>
               /\ last' = [h |-> "delete", id |-> tripId, deleted |-> TRUE,
                           stops |-> {s.id : s \in TripStopsIn(dbStops, [id |-> tripId])}]
               /\ UNCHANGED failures
       ELSE /\ failures < MaxFailures
            /\ failures' = failures + 1
            /\ toasts' = <<Toast("error", "Failed to delete trip")>>
            /\ last' = [h |-> "delete", id |-> tripId, deleted |-> FALSE, stops |-> {}]
            /\ UNCHANGED <<dbTrips, dbStops, dbActs>>
    /\ UNCHANGED <<intervalSorts, nextId, screen, trip, user, stops, pc, op, file>>

\* localTripAPI.delete of the local data layer: the trips without the trip,
\* and whether a trip was removed
LocalTripDelete(tripId) ==
    /\ pc = "idle"
    /\ screen = "my-trips"
    /\ LET trips == dbTrips
           filtered == {t \in trips : t.id # tripId}
       IN /\ dbTrips' = filtered
          /\ last' = [h |-> "delete", id |-> tripId,
                      deleted |-> Cardinality(filtered) < Cardinality(trips),
                      stops |-> {s.id : s \in TripStopsIn(dbStops, [id |-> tripId])}]
    /\ toasts' = <<>>
    /\ writes' = 1
    /\ prev' = NoCall
    /\ UNCHANGED <<intervalSorts, dbStops, dbActs, nextId, screen, trip, user, stops,
                   pc, op, failures, file>>

\* a trip id that no trip carries
NoSuchTrip == Id(0)

\* the owner's trip view over a store that holds the owner's trip with its
\* stops and activities: the trip is public or private, with or without a
\* share code
InitSharing ==
    /\ \E pub \in BOOLEAN, code \in {Null, Str("c1")} :
          /\ trip = [SharedTrip EXCEPT !.is_public = Bool(pub), !.share_code = code]
          /\ dbTrips = {trip}
    /\ \E n \in 0..MaxSrcStops : \E counts \in [1..n -> 0..MaxSrcActs] :
          /\ dbStops = {SrcStop(i) : i \in 1..n}
          /\ dbActs = UNION {{SrcActivity(i, j) : j \in 1..counts[i]} : i \in 1..n}
    /\ nextId = SrcIds
    /\ screen = "trip-view"
    /\ user = SignedIn(U1)
    /\ stops \in LoadedStops(trip)
    /\ pc = "idle"
    /\ op = [pending |-> {}]
    /\ toasts = <<>>
    /\ writes = 0
    /\ last = NoCall
    /\ prev = NoCall
    /\ failures = 0
    /\ intervalSorts = TRUE
    /\ file = Undef

\* the links a browser is given: the link the share action has produced, a
\* link with the code c1 and a link with a code that no trip carries
LinksToOpen ==
    (IF last.h = "share" THEN {last.url} ELSE {})
    \cup {ShareUrl(Str(c)) : c \in {"c1", NoSuchCode}}

NextSharing ==
    \/ \E first, second \in RandomCodes, ok \in BOOLEAN : HandleShare(first, second, ok)
    \/ \E url \in LinksToOpen, visitor \in Visitors, ok \in BOOLEAN :
          OpenSharedLink(url, visitor, ok)
    \/ \E shareCode \in RandomCodes, o \in CopyOutcomes(stops) :
          HandleCopyTrip(shareCode, o)
    \/ LoadTripData
    \/ OpenMyTrips
    \/ \E t \in dbTrips : HandleTripSelect(t)
    \/ \E t \in TripsOf(user), ok, cascades \in BOOLEAN : HandleDelete(t.id, ok, cascades)
    \/ \E id \in {t.id : t \in dbTrips} \cup {NoSuchTrip} : LocalTripDelete(id)

SpecSharing == InitSharing /\ [][NextSharing]_vars

\* the shared trip view of a public trip after loadSharedTrip, for a
\* visitor who is signed in or not: copies of the trip
InitCopy ==
    /\ dbTrips = {SharedTrip}
    /\ trip = SharedTrip
    /\ \E n \in 0..MaxSrcStops : \E counts \in [1..n -> 0..MaxSrcActs] :
          /\ dbStops = {SrcStop(i) : i \in 1..n}
          /\ dbActs = UNION {{SrcActivity(i, j) : j \in 1..counts[i]} : i \in 1..n}
    /\ nextId = SrcIds
    /\ screen = "shared-trip"
    /\ user \in Visitors
    /\ stops \in LoadedStops(trip)
    /\ pc = "idle"
    /\ op = [pending |-> {}]
    /\ toasts = <<>>
    /\ writes = 0
    /\ last = NoCall
    /\ prev = NoCall
    /\ failures = 0
    /\ intervalSorts = TRUE
    /\ file = Undef

NextCopy ==
    \/ \E shareCode \in RandomCodes, o \in CopyOutcomes(stops) :
          HandleCopyTrip(shareCode, o)
    \/ LoadTripData
    \/ \E visitor \in Visitors :
          OpenSharedLink(ShareUrl(SharedTrip.share_code), visitor, TRUE)

SpecCopy == InitCopy /\ [][NextCopy]_vars

-----------------------------------------------------------------------------
\* the row the store holds for the trip with that id
StoredTrip(id) == CHOOSE r \in dbTrips : r.id = id

\* C24: whenever the share action produces a link for a trip, the value of
\* the link's share parameter equals the share_code the store holds for that
\* trip at that moment, both when the trip already had a share code and when
\* the share action had to generate one.
C24_LinkCarriesStoredCode ==
    (last.h = "share") =>
        UrlSearchParamsGet(last.url, "share") = StoredTrip(last.id).share_code

\* C25: a stop is deleted when its trip is deleted: after a trip delete
\* succeeds the store contains no stop whose trip_id is the deleted trip and
\* no activity whose trip_stop_id is one of that trip's stops.
C25_DeleteRemovesStops ==
    (last.h = "delete" /\ last.deleted) =>
        /\ ~\E s \in dbStops : s.trip_id = last.id
        /\ ~\E a \in dbActs : a.trip_stop_id \in last.stops

\* the stops and activities the copy has inserted
CopiedStops == dbStops \ last.before.stops

CopiedActivities == dbActs \ last.before.acts

\* the fields of a trip, a stop and an activity that a copy takes over
TripCopyCols == {"description", "start_date", "end_date", "cover_image", "total_budget"}

StopCopyCols == StopCols \ {"id", "trip_id"}

ActCopyCols == ActCols \ {"id", "trip_stop_id"}

\* C27: copying a shared trip creates a new trip owned by the current user
\* with the name suffixed " (Copy)", is_public false and a share code drawn
\* by the copy; every stop whose insert succeeds is duplicated under the new
\* trip with its order_index and fields; every copied activity is attached
\* to the new stop created from its source stop and equals a source activity
\* of that stop; the activities of a stop whose insert fails are not
\* inserted, so no copied activity references a source stop or a stop that
\* does not exist.
C27_CopyDuplicatesUnderNewTrip ==
    (last.h = "copy") =>
        LET new == last.newTrip
            src == last.sourceStops
        IN /\ new \in dbTrips
           /\ new.id \notin {t.id : t \in last.before.trips}
           /\ new.user_id = Field(user, "id")
           /\ new.name = Str(last.source.name.v \o " (Copy)")
           /\ new.is_public = Bool(FALSE)
           /\ new.share_code = Str(last.shareCode)
           /\ SameFields(TripCopyCols, new, last.source)
           /\ Len(last.made) = Len(src)
           /\ {s.id : s \in CopiedStops} = Range(last.made) \ {Null}
           /\ \A i \in 1..Len(src) :
                 last.made[i] # Null =>
                    \E s \in CopiedStops :
                       /\ s.id = last.made[i]
                       /\ s.trip_id = new.id
                       /\ SameFields(StopCopyCols, s, src[i])
                       /\ LET copies == {a \in CopiedActivities : a.trip_stop_id = s.id}
                          IN IF last.actsOk[i]
                             THEN /\ Cardinality(copies) = Len(src[i].activities.v)
                                  /\ \A j \in 1..Len(src[i].activities.v) :
                                        \E a \in copies :
                                           SameFields(ActCopyCols, a, src[i].activities.v[j])
                             ELSE copies = {}
           /\ \A a \in CopiedActivities :
                 /\ \E s \in CopiedStops : s.id = a.trip_stop_id
                 /\ a.trip_stop_id \notin {s.id : s \in last.before.stops}

\* a copy of a trip with two stops that have an activity each: the insert of
\* one stop failed, the other stop and its activity are copied
C27_Witness ==
    /\ last.h = "copy"
    /\ Len(last.sourceStops) = 2
    /\ \A i \in 1..2 : Len(last.sourceStops[i].activities.v) = 1
    /\ \E i \in 1..2 : last.made[i] = Null
    /\ Cardinality(CopiedStops) = 1
    /\ Cardinality(CopiedActivities) = 1
    /\ last.newTrip.user_id = U2
    /\ last.newTrip.name = Str("Goa (Copy)")

\* C28: after the share action completes for a trip, the trip is public and
\* has a share code in the store, so that resolving the produced link (the
\* lookup by share_code equal and is_public true) finds that trip, also for
\* a trip that had a share code and was private; a lookup with a code that
\* matches no public trip yields the not-found state.
C28_SharedTripResolves ==
    /\ (last.h = "share") =>
          /\ StoredTrip(last.id).is_public = Bool(TRUE)
          /\ Truthy(StoredTrip(last.id).share_code)
    /\ (last.h = "loadSharedTrip" /\ last.ok /\ last.produced # Null) =>
          /\ trip # Null
          /\ trip.id = last.produced
    /\ (last.h = "loadSharedTrip"
          /\ ~\E r \in dbTrips : r.share_code = last.shareCode /\ r.is_public = Bool(TRUE)) =>
          /\ screen = "shared-trip"
          /\ trip = Null

====
